---- MODULE Spec2Model ----
(***************************************************************************)
(* A model of the Klutz workbook compositor (src/klutz_compositor.py).     *)
(*                                                                         *)
(* Rasters are modelled pixel by pixel: a canvas is a function from        *)
(* <<column, row>> to one colour value (the three RGB bands are treated    *)
(* alike by compositing, so one band stands for them; the print artifact   *)
(* passes, which move bands apart, work on pixels [r, g]),                 *)
(* and an element bitmap is a sequence of rows of RGBA pixels [a |-> alpha, *)
(* c |-> colour].  Coordinates are canvas pixels, x to the right, y down.   *)
(***************************************************************************)
EXTENDS Integers, Sequences, FiniteSets, TLC

VARIABLES
    \* KlutzCompositor fields set by __init__ and the configuration it reads
    canvas_width, canvas_height, spine_width, spine_center, spine_start,
    spine_end, buffer,
    \* the canvas raster being composed and the last canvas.paste() call
    canvas, pasted,
    \* the state of the process-global generator of the random module, the
    \* last get_chaos_rotation call and the first one ever made
    rng, jitter, first_jitter,
    \* compose_spread: its position, its arguments (the layout document read
    \* from layout_path, apply_artifacts), the loop's page and element index,
    \* the bitmap rendered for the current element, and what it returned
    pc, layout, apply_artifacts, page, idx, element_img, returned,
    \* history of one compose_spread run: the base canvas as created, the
    \* elements rendered and pasted so far, the paste calls made, the number
    \* of artifact passes and the failure that ended the run
    base, log, pastes, artifact_runs, failure,
    \* one artifact pass (KlutzCompositor.apply_print_artifacts or
    \* PostProcessor.apply_all_artifacts): the image it works on and the one
    \* it was given, the effects applied so far, its position, the settings
    \* it reads, and the vignette mask it drew
    fx_image, original, effects, fx, fx_config, vignette_mask,
    \* the word wrap of render_text_block on its own: text_config["content"]
    \* as lines of words, the wrap width, wrapped_lines, and how often the
    \* result was wrapped again
    content, wrap_width, wrapped_lines, wraps,
    \* load_and_process_asset on its own: its argument, the asset as it is
    \* before the border block, what the call returned, and how it ended
    asset_config, asset_img, returned_asset, asset_status,
    \* create_base_canvas on its own: how the call ended, the canvas it
    \* returned and the shadow_mask add_page_curvature drew, by column
    base_status, base_canvas, shadow_mask,
    \* the master configuration file, whether KlutzCompositor(config_path)
    \* has been constructed or has raised, the AssetValidator constructed
    \* from the same file, and the last method call that read the config
    config_file, compositor, validator, call_site,
    \* main(): its position, the stage whose exception it caught, its return
    \* value, and the output path on disk
    main_pc, main_error, exit_code, output,
    \* AssetValidator: aesthetic_rules.rotation_limits of the configuration,
    \* self.rotation_limits, and the last _check_rotation_limits call
    rotation_cfg, rotation_limits, rotation_check,
    \* two threads inside get_chaos_rotation: for each its arguments, its
    \* position, the angle it returned, and whether the other thread touched
    \* the generator between its seed and its draw
    threads,
    \* a layout element checked by AssetValidator._check_spine_intrusion and
    \* then composited: the element, the violations reported and the stage
    validated,
    \* NanoBananaClient.batch_generate: its position, the client's max_workers,
    \* its prompt_list (each prompt by what kind of input it is), the futures
    \* submitted, the stats dictionary and the metadata list
    batch_pc, max_workers, prompt_list, futures, stats, metadata,
    \* NanoBananaClient.generate_asset: the client's mock_mode, the prompt,
    \* max_retries, the loop's attempt, the outcome of every attempt made,
    \* the waits, and the result
    gen,
    \* GeminiClient: its RateLimitConfig and mock_mode;
    \* transform_layout_to_prompts: its position, the number of elements and
    \* the element it is at; _call_api_with_retry for that element: the loop's
    \* attempt, the model calls made with the wait before each, and the wait
    \* due; and the prompts list
    retry_config, transform, api, prompts,
    \* RateLimiter: the clock time.time() reads, the limits of its config,
    \* self.minute_calls and self.hour_calls, and every timestamp recorded
    clock, rate_config, minute_calls, hour_calls, admitted,
    \* ResponseCache and generate_component_prompt: the time datetime.now()
    \* reads, the client's enable_cache and mock_mode, whether the cache
    \* directory fails reads and writes, the cache files by key, per argument
    \* the last response returned, and the last call: what it found in the
    \* cache, what the same arguments returned before, and what it did
    now, cache_client, file_errors, cache_files, last_return, last_call,
    \* PromptGenerator: the element_config generate_element_prompt is called
    \* with, and the call: the terms _validate_prompt found, whether it raised
    \* ValueError, and the XML string
    element_config, prompt_call

vars == <<canvas_width, canvas_height, spine_width, spine_center, spine_start,
          spine_end, buffer, canvas, pasted, rng, jitter, first_jitter,
          pc, layout, apply_artifacts, page, idx, element_img, returned,
          base, log, pastes, artifact_runs, failure,
          fx_image, original, effects, fx, fx_config, vignette_mask,
          content, wrap_width, wrapped_lines, wraps,
          asset_config, asset_img, returned_asset, asset_status,
          base_status, base_canvas, shadow_mask,
          config_file, compositor, validator, call_site,
          main_pc, main_error, exit_code, output,
          rotation_cfg, rotation_limits, rotation_check,
          threads,
          validated,
          batch_pc, max_workers, prompt_list, futures, stats, metadata,
          gen,
          retry_config, transform, api, prompts,
          clock, rate_config, minute_calls, hour_calls, admitted,
          now, cache_client, file_errors, cache_files, last_return, last_call,
          element_config, prompt_call>>

spreadVars == <<pc, layout, apply_artifacts, page, idx, element_img, returned,
                base, log, pastes, artifact_runs, failure>>

compositeVars == <<canvas, pasted>>

jitterVars == <<rng, jitter, first_jitter>>

configVars == <<canvas_width, canvas_height, spine_width, spine_center,
                spine_start, spine_end, buffer>>

artifactVars == <<fx_image, original, effects, fx, fx_config, vignette_mask>>

\* The state of the functions that are modelled on their own.
wrapVars == <<content, wrap_width, wrapped_lines, wraps>>

assetVars == <<asset_config, asset_img, returned_asset, asset_status>>

baseVars == <<base_status, base_canvas, shadow_mask>>

constructVars == <<config_file, compositor, validator, call_site>>

mainVars == <<main_pc, main_error, exit_code, output>>

rotationVars == <<rotation_cfg, rotation_limits, rotation_check>>

threadVars == <<threads>>

agreeVars == <<validated>>

batchVars == <<batch_pc, max_workers, prompt_list, futures, stats, metadata>>

generateVars == <<gen>>

retryVars == <<retry_config, transform, api, prompts>>

limiterVars == <<clock, rate_config, minute_calls, hour_calls, admitted>>

cacheVars == <<now, cache_client, file_errors, cache_files, last_return, last_call>>

promptVars == <<element_config, prompt_call>>

pipelineVars == <<rotationVars, threadVars, agreeVars, batchVars, generateVars, retryVars, limiterVars, cacheVars, promptVars>>

stageVars ==
    <<configVars, compositeVars, jitterVars, spreadVars, artifactVars,
      wrapVars, assetVars, baseVars, constructVars, mainVars>>

restVars ==
    <<artifactVars, wrapVars, assetVars, baseVars, constructVars, mainVars,
      pipelineVars>>

----------------------------------------------------------------------------
(* Bounds of the model *)

MaxCanvasWidth == 6
MaxBuffer == 1
MaxElemWidth == 3
RngModulus == 8
MaxRotation == 3
MaxElements == 2
MaxWrapWidth == 4
MaxWords == 3
MaxBorder == 2

\* Rotations checked against the limits lie in -MaxAngle..MaxAngle degrees.
MaxAngle == 21

\* batch_generate is given at most MaxPrompts prompts and the executor has
\* at most MaxWorkers threads.
MaxPrompts == 3
MaxWorkers == 2

\* max_retries of generate_asset and retry_attempts of the Gemini client.
MaxRetries == 3

\* The rate limiter: the 60 second window and the 3600 second window in
\* ticks of the model's clock, the last tick, and the largest
\* requests_per_minute.
MinuteWindow == 3
HourWindow == 6
MaxClock == 10
MaxPerMinute == 2

\* The response cache: 24 hours in ticks of the model's clock, and the last
\* tick.
Day == 2
MaxNow == 4

----------------------------------------------------------------------------
(* Spine geometry: KlutzCompositor.__init__ *)

SpineCenterOf(w) == w \div 2

SpineStartNoHalving(w, s) == SpineCenterOf(w) - s

SpineStartOf(w, s) == SpineCenterOf(w) - (s \div 2)

SpineEndOf(w, s) == SpineCenterOf(w) + (s \div 2)

\* The configurations explored: every small canvas with every small spine
\* width (__init__ validates neither, so s >= w is included), and the 3400
\* pixel spread with its 462 pixel spine.
Configurations ==
    { [w |-> w, s |-> s] : w \in 2..MaxCanvasWidth, s \in 1..MaxCanvasWidth } \cup
    { [w |-> 3400, s |-> 462] }

----------------------------------------------------------------------------
(* Rasters *)

Pixels(w, h) == (0..(w - 1)) \X (0..(h - 1))

\* Image.new("RGB", (w, h), colour)
NewImage(w, h, colour) == [p \in Pixels(w, h) |-> colour]

\* Colour values of the element bitmaps of the model.
Colour == [ink |-> 40, photo |-> 90, splat |-> 10, border |-> 120]

\* The values of master_config.yaml the compositor reads besides the canvas
\* size, the spine width and the buffer (opacities and gains in percent).
MasterConfig ==
    [paper_colors |-> [aged_newsprint |-> 230, white |-> 255, kraft |-> 190],
     texture_opacity |-> 10,
     spine_shadow |-> 20,
     hole_diameter |-> 57,
     hole_spacing |-> 18,
     dot_gain |-> 95,
     vignette |-> 15,
     cmyk_shift |-> [magenta |-> <<1, 0>>, yellow |-> <<0, -1>>],
     word_wrap_padding |-> 0,
     default_leading |-> 0]

\* A fresh canvas in the aged_newsprint paper colour.
BlankCanvas(w, h) == NewImage(w, h, MasterConfig.paper_colors.aged_newsprint)

NoCanvas == [p \in {} |-> 0]

Width(bm) == IF Len(bm) = 0 THEN 0 ELSE Len(bm[1])

OpaqueBitmap(w, h) ==
    [r \in 1..h |-> [i \in 1..w |-> [a |-> 255, c |-> Colour.ink]]]

\* Image.paste(im, box, mask) and Image.composite for one pixel: mask 255
\* takes the source, 0 keeps the destination, values between mix the two.
PasteMix(dst, src, a) == (dst * (255 - a) + src * a + 127) \div 255

\* The same with the mask ignored: every pixel of the source is copied.
PasteNoMask(cv, element, x, y) ==
    [p \in DOMAIN cv |->
        IF /\ p[2] - y + 1 \in 1..Len(element)
           /\ p[1] - x + 1 \in 1..Len(element[p[2] - y + 1])
        THEN element[p[2] - y + 1][p[1] - x + 1].c
        ELSE cv[p]]

\* canvas.paste(element, (x, y), element): the element's own alpha band is
\* the mask; what falls outside the canvas is clipped.
Paste(cv, element, x, y) ==
    [p \in DOMAIN cv |->
        IF /\ p[2] - y + 1 \in 1..Len(element)
           /\ p[1] - x + 1 \in 1..Len(element[p[2] - y + 1])
        THEN PasteMix(cv[p], element[p[2] - y + 1][p[1] - x + 1].c,
                      element[p[2] - y + 1][p[1] - x + 1].a)
        ELSE cv[p]]

Max(S) == CHOOSE m \in S : \A n \in S : n <= m

----------------------------------------------------------------------------
(* KlutzCompositor.composite_element *)

IntrudesTouching(x, width) == x <= spine_end /\ x + width >= spine_start

Intrudes(x, width) == x < spine_end /\ x + width > spine_start

MovedLeftNoWidth(width) == spine_start - buffer

MovedLeft(width) == spine_start - width - buffer

MovedRightNoBuffer == spine_end

MovedRight == spine_end + buffer

OnLeftPageByCentre(x, width) == 2 * x + width < 2 * spine_center

OnLeftPage(x, width) == x < spine_center

AdjustedX(x, width) ==
    IF Intrudes(x, width)
    THEN IF OnLeftPage(x, width) THEN MovedLeft(width) ELSE MovedRight
    ELSE x

NoPaste == [id |-> "", reqx |-> 0, reqy |-> 0, width |-> 0, x |-> 0, y |-> 0]

\* One call composite_element(cv, element, (x, y), id); the canvas is the
\* caller's argument, here a fresh canvas of the configured size.
CompositeElement(cv, element, x, y, id) ==
    /\ canvas' = Paste(cv, element, AdjustedX(x, Width(element)), y)
    /\ pasted' = [id |-> id, reqx |-> x, reqy |-> y, width |-> Width(element),
                  x |-> AdjustedX(x, Width(element)), y |-> y]

SmallCanvas == canvas_width <= MaxCanvasWidth

PositionsX ==
    IF SmallCanvas
    THEN (spine_start - MaxElemWidth - 1)..(spine_end + 1)
    ELSE { spine_start - 400, spine_start - 399, spine_center - 200,
           spine_center - 1, spine_center, spine_end - 1, spine_end }

ElementWidths == IF SmallCanvas THEN 0..MaxElemWidth ELSE {400}

CallCompositeElement ==
    /\ \E x \in PositionsX, y \in 0..(canvas_height - 1), w \in ElementWidths :
        CompositeElement(BlankCanvas(canvas_width, canvas_height),
                         OpaqueBitmap(w, 1), x, y, "elem")
    /\ UNCHANGED configVars

\* The compositor constructed from a configuration with canvas_size
\* [c.w, 2], spine_width c.s and layout.spine_intrusion_buffer b.
Constructed(c, b) ==
    /\ canvas_width = c.w
    /\ canvas_height = 2
    /\ spine_width = c.s
    /\ spine_center = SpineCenterOf(c.w)
    /\ spine_start = SpineStartOf(c.w, c.s)
    /\ spine_end = SpineEndOf(c.w, c.s)
    /\ buffer = b

InitConfig == \E c \in Configurations, b \in 0..MaxBuffer : Constructed(c, b)

----------------------------------------------------------------------------
(* KlutzCompositor.get_chaos_rotation and the random module's generator *)

ElementIds == {"L_photo_01", "L_photo_02", "R_text_01"}

\* int(md5(id).hexdigest(), 16) % 2**32 as two 16 bit halves.
Md5Seed(id) ==
    CASE id = "L_photo_01" -> [hi |-> 65343, lo |-> 19480]
      [] id = "L_photo_02" -> [hi |-> 43148, lo |-> 24199]
      [] id = "R_text_01" -> [hi |-> 55591, lo |-> 59037]

\* The generator is a state in 0..RngModulus-1: seeding sets it from the seed
\* alone, a draw advances it and yields the new state over RngModulus, a
\* value of [0, 1).
RandomSeedIgnored(state, seed) == state

RandomSeed(state, seed) ==
    ((seed.hi % RngModulus) * (65536 % RngModulus) + seed.lo) % RngModulus

RandomNext(state) == (5 * state + 3) % RngModulus

\* random.uniform(a, b) = a + (b - a) * random(), in units of 1/RngModulus,
\* for the draw u / RngModulus.
UniformNoOffset(a, b, u) == (b - a) * u

Uniform(a, b, u) == a * RngModulus + (b - a) * u

NoJitter == [id |-> "", m |-> 0, angle |-> 0, before |-> 0]

GetChaosRotation(element_id, max_rotation) ==
    LET seeded == RandomSeed(rng, Md5Seed(element_id))
        drawn == RandomNext(seeded)
        call == [id |-> element_id, m |-> max_rotation,
                 angle |-> Uniform(0 - max_rotation, max_rotation, drawn),
                 before |-> rng]
    IN /\ rng' = drawn
       /\ jitter' = call
       /\ first_jitter' = IF first_jitter = NoJitter THEN call ELSE first_jitter

JitterIdle ==
    /\ rng = 0
    /\ jitter = NoJitter
    /\ first_jitter = NoJitter

CallGetChaosRotation ==
    \E id \in ElementIds, m \in 0..MaxRotation : GetChaosRotation(id, m)

\* Any other code of the process drawing from, or seeding, the generator.
OtherRandomDraw ==
    /\ rng' = RandomNext(rng)
    /\ UNCHANGED <<jitter, first_jitter>>

OtherRandomSeed ==
    /\ \E v \in 0..(RngModulus - 1) : rng' = v
    /\ UNCHANGED <<jitter, first_jitter>>

----------------------------------------------------------------------------
(* KlutzCompositor.create_base_canvas *)

\* The paper grain, np.random.normal(128, 20, ...): the textures explored.
Textures == {"flat", "grain"}

TextureValue(t, p) ==
    IF t = "flat" THEN 128 ELSE IF (p[1] + p[2]) % 2 = 0 THEN 108 ELSE 148

\* Image.blend(canvas, texture, alpha)
Blend(cv, t, pct) ==
    [p \in DOMAIN cv |-> (cv[p] * (100 - pct) + TextureValue(t, p) * pct) \div 100]

\* add_spiral_binding draws canvas_height // pitch holes: none on a canvas
\* lower than one pitch, which every canvas of the model is.
NumHoles == canvas_height \div (MasterConfig.hole_diameter + MasterConfig.hole_spacing)

AddSpiralBinding(cv) == cv

ShadowWidth == (spine_width * 3) \div 4

ShadowAlpha(i) ==
    (MasterConfig.spine_shadow * 255 * (ShadowWidth - i) * (ShadowWidth - i))
        \div (100 * ShadowWidth * ShadowWidth)

\* The mask column x after the loop: the last line drawn on it.
ShadowMask(x) ==
    LET hits == { i \in 0..(ShadowWidth - 1) :
                    x = spine_start + i \/ x = spine_end - i }
    IN IF hits = {} THEN 0 ELSE ShadowAlpha(Max(hits))

AddPageCurvature(cv) ==
    [p \in DOMAIN cv |-> PasteMix(cv[p], 0, ShadowMask(p[1]))]

CreateBaseCanvas(template, t) ==
    AddPageCurvature(AddSpiralBinding(
        Blend(NewImage(canvas_width, canvas_height,
                       MasterConfig.paper_colors[template]),
              t, MasterConfig.texture_opacity)))

----------------------------------------------------------------------------
(* KlutzCompositor.apply_print_artifacts, on the green band: the            *)
(* misregistration shifts the red and the blue band and keeps the green.    *)

VignetteSteps == 100

DotGain(c) == (c * MasterConfig.dot_gain) \div 100

MaxRadius ==
    (12 * (IF canvas_width > canvas_height THEN canvas_width ELSE canvas_height))
        \div 10

VignetteRadius(i) == (MaxRadius * (VignetteSteps - i)) \div VignetteSteps

\* alpha = int(255 * (1 - vignette_intensity * progress)), for the
\* intensity v in percent.
VignetteAlphaAt(v, i) ==
    (255 * (100 * VignetteSteps - v * i)) \div (100 * VignetteSteps)

VignetteAlpha(i) == VignetteAlphaAt(MasterConfig.vignette, i)

\* The mask pixel after the loop: the mask starts at 255 and every ellipse
\* is filled over what was drawn before, so the last (smallest) ellipse
\* over the pixel decides.
VignetteMaskAt(v, p) ==
    LET dx == p[1] - canvas_width \div 2
        dy == p[2] - canvas_height \div 2
        inside == { i \in 0..(VignetteSteps - 1) :
                      dx * dx + dy * dy <= VignetteRadius(i) * VignetteRadius(i) }
    IN IF inside = {} THEN 255 ELSE VignetteAlphaAt(v, Max(inside))

VignetteMask(p) == VignetteMaskAt(MasterConfig.vignette, p)

ApplyPrintArtifacts(image) ==
    [p \in DOMAIN image |-> PasteMix(0, DotGain(image[p]), VignetteMask(p))]

----------------------------------------------------------------------------
(* KlutzCompositor.load_and_process_asset *)

\* The files under assets.paths.generated.
GeneratedAssets ==
    "photo.png" :> << << [a |-> 255, c |-> Colour.photo],
                         [a |-> 255, c |-> Colour.photo] >> >> @@
    "splat.png" :> << << [a |-> 128, c |-> Colour.splat],
                         [a |-> 255, c |-> Colour.splat],
                         [a |-> 0, c |-> Colour.splat] >> >>

AssetFails(e) == "asset" \notin DOMAIN e \/ e.asset \notin DOMAIN GeneratedAssets

\* asset.resize(new_size, LANCZOS), sampled at the nearest source pixel.
Resize(bm, w, h) ==
    [r \in 1..h |-> [i \in 1..w |->
        bm[((r - 1) * Len(bm)) \div h + 1][((i - 1) * Width(bm)) \div w + 1]]]

\* asset.rotate(angle, expand=True, fillcolor=(0, 0, 0, 0)): for an angle
\* other than 0 the bounding box grows, here by one transparent pixel on
\* every side; the content is kept as it is.
Rotate(bm, angle) ==
    IF angle = 0 THEN bm
    ELSE [r \in 1..(Len(bm) + 2) |-> [i \in 1..(Width(bm) + 2) |->
            IF r \in 2..(Len(bm) + 1) /\ i \in 2..(Width(bm) + 1)
            THEN bm[r - 1][i - 1]
            ELSE [a |-> 0, c |-> 0]]]

\* Image.new("RGBA", (w + 2n, h + 2n), colour + (255,)) and
\* bordered.paste(asset, (n, n), asset): every band is mixed by the mask.
AddBorder(bm, n, colour) ==
    [r \in 1..(Len(bm) + 2 * n) |-> [i \in 1..(Width(bm) + 2 * n) |->
        IF r \in (n + 1)..(n + Len(bm)) /\ i \in (n + 1)..(n + Width(bm))
        THEN [a |-> PasteMix(255, bm[r - n][i - n].a, bm[r - n][i - n].a),
              c |-> PasteMix(colour, bm[r - n][i - n].c, bm[r - n][i - n].a)]
        ELSE [a |-> 255, c |-> colour]]]

\* The generator after load_and_process_asset(e).
RngAfterAsset(e) ==
    IF "rotation" \in DOMAIN e
    THEN RandomNext(RandomSeed(rng, Md5Seed(e.id)))
    ELSE rng

ChaosAngle(e) ==
    Uniform(0 - e.rotation, e.rotation, RandomNext(RandomSeed(rng, Md5Seed(e.id))))

LoadAndProcessAsset(e) ==
    LET loaded == GeneratedAssets[e.asset]
        resized == IF "dimensions" \in DOMAIN e
                   THEN Resize(loaded, e.dimensions[1], e.dimensions[2])
                   ELSE loaded
        rotated == IF "rotation" \in DOMAIN e
                   THEN Rotate(resized, ChaosAngle(e))
                   ELSE resized
    IN IF "border" \in DOMAIN e
       THEN AddBorder(rotated, e.border.width, e.border.color)
       ELSE rotated

----------------------------------------------------------------------------
(* KlutzCompositor.render_text_block.  A text is a sequence of lines (the   *)
(* content split at newlines), a line a sequence of words (the line split   *)
(* at spaces); every character, the space included, is one pixel wide.      *)

\* The files under assets.paths.fonts.
FontFiles == {"body"}

TextFails(e) ==
    \/ ~({"font", "size", "content", "dimensions"} \subseteq DOMAIN e)
    \/ e.font \notin FontFiles

\* font.getbbox of the words, each followed by one space.
RECURSIVE TextWidth(_)
TextWidth(words) ==
    IF words = << >> THEN 0 ELSE Len(Head(words)) + 1 + TextWidth(Tail(words))

\* str.strip() of a line: the empty words at its ends are the spaces there.
RECURSIVE StripLeft(_)
StripLeft(words) ==
    IF words # << >> /\ Head(words) = "" THEN StripLeft(Tail(words)) ELSE words

RECURSIVE StripRight(_)
StripRight(words) ==
    IF words # << >> /\ words[Len(words)] = ""
    THEN StripRight(SubSeq(words, 1, Len(words) - 1))
    ELSE words

Strip(words) == StripRight(StripLeft(words))

\* if current_line: wrapped_lines.append(current_line.strip())
Flush(current) == IF current = << >> THEN << >> ELSE << Strip(current) >>

\* The loop over the words of one line: current is current_line.
RECURSIVE WrapWords(_, _, _)
WrapWords(words, current, max_width) ==
    IF words = << >> THEN Flush(current)
    ELSE IF TextWidth(Append(current, Head(words))) <= max_width
         THEN WrapWords(Tail(words), Append(current, Head(words)), max_width)
         ELSE Flush(current) \o WrapWords(Tail(words), << Head(words) >>, max_width)

IsBlank(line) == \A k \in 1..Len(line) : line[k] = ""

RECURSIVE WrapLines(_, _)
WrapLines(lines, max_width) ==
    IF lines = << >> THEN << >>
    ELSE (IF IsBlank(Head(lines)) THEN << << >> >>
          ELSE WrapWords(Head(lines), << >>, max_width))
         \o WrapLines(Tail(lines), max_width)

\* text_config["content"].strip().split("\n"): blank lines at the ends go,
\* and so do the spaces before the first and after the last word.
RECURSIVE DropBlankHead(_)
DropBlankHead(lines) ==
    IF lines # << >> /\ IsBlank(Head(lines)) THEN DropBlankHead(Tail(lines))
    ELSE lines

RECURSIVE DropBlankTail(_)
DropBlankTail(lines) ==
    IF lines # << >> /\ IsBlank(lines[Len(lines)])
    THEN DropBlankTail(SubSeq(lines, 1, Len(lines) - 1))
    ELSE lines

StripContent(lines) ==
    LET kept == DropBlankTail(DropBlankHead(lines))
    IN IF kept = << >> THEN << << >> >>
       ELSE [k \in 1..Len(kept) |->
               IF k = 1 /\ k = Len(kept) THEN Strip(kept[k])
               ELSE IF k = 1 THEN StripLeft(kept[k])
               ELSE IF k = Len(kept) THEN StripRight(kept[k])
               ELSE kept[k]]

\* Lines 393-419: the content split into lines and every line wrapped.
WrapContent(lines, width) == WrapLines(StripContent(lines), width)

\* Whether the k-th character of the words joined by spaces is a glyph.
RECURSIVE GlyphAt(_, _)
GlyphAt(words, k) ==
    IF words = << >> \/ k < 1 THEN FALSE
    ELSE IF k <= Len(Head(words)) THEN TRUE
    ELSE IF k = Len(Head(words)) + 1 THEN FALSE
    ELSE GlyphAt(Tail(words), k - Len(Head(words)) - 1)

RenderTextBlock(e) ==
    LET padding == MasterConfig.word_wrap_padding
        wrapped == WrapContent(e.content, e.dimensions[1] - 2 * padding)
        line_height == IF "leading" \in DOMAIN e THEN e.leading
                       ELSE e.size + MasterConfig.default_leading
        colour == IF "color" \in DOMAIN e THEN e.color ELSE 0
    IN [r \in 1..(Len(wrapped) * line_height) |-> [i \in 1..e.dimensions[1] |->
          IF /\ (r - 1) % line_height < e.size
             /\ GlyphAt(wrapped[(r - 1) \div line_height + 1], i - padding)
          THEN [a |-> 255, c |-> colour]
          ELSE [a |-> 0, c |-> 0]]]

----------------------------------------------------------------------------
(* KlutzCompositor.compose_spread *)

\* The canvas of the spreads composed: 8 by 2 pixels with a 2 pixel spine.
SpreadConfig == [w |-> 8, s |-> 2]

\* The elements the layouts are made of: of the four with an asset, one has
\* no type, one a type that begins with "text" but not with "text_", one a
\* type no schema knows, and one a type of the layout schema.
ElementPool ==
    { [id |-> "L_photo_01", asset |-> "photo.png", position |-> <<0, 0>>],
      [id |-> "L_splat_01", type |-> "texture_splat",
       asset |-> "splat.png", position |-> <<1, 0>>],
      [id |-> "R_text_01", type |-> "text_body", content |-> << <<"ab">> >>,
       font |-> "body", size |-> 1, dimensions |-> <<3, 1>>,
       position |-> <<5, 1>>],
      [id |-> "R_text_02", type |-> "text_headline", content |-> << <<"a">> >>,
       font |-> "nofont", size |-> 1, dimensions |-> <<2, 1>>,
       position |-> <<6, 0>>],
      [id |-> "R_ghost_01", type |-> "hologram_3d",
       asset |-> "ghost.png", position |-> <<6, 0>>],
      [id |-> "R_gui_01", type |-> "graphic_gui_recreation",
       asset |-> "photo.png"] }

\* The canvas templates named by the layouts; "neon" is not in the palette.
Templates == {"kraft", "neon"}

\* A layout document, with the canvas template t or, for t = "", without.
LayoutDocument(t, l, r) ==
    IF t = ""
    THEN [left_page |-> [elements |-> l], right_page |-> [elements |-> r]]
    ELSE [canvas |-> t, left_page |-> [elements |-> l],
          right_page |-> [elements |-> r]]

NoLayout == [p \in {} |-> 0]

NoImage == << >>

NoFailure == [stage |-> "", at |-> 0]

PageKeysReversed == <<"right_page", "left_page">>

PageKeys == <<"left_page", "right_page">>

\* layout.get(page_key, {}).get("elements", [])
PageElements(lay, page_key) ==
    IF page_key \in DOMAIN lay /\ "elements" \in DOMAIN lay[page_key]
    THEN lay[page_key].elements
    ELSE << >>

Elements == PageElements(layout, PageKeys[page])

\* The characters of the type tags.
Letters(element_type) ==
    CASE element_type = "text_body" ->
            <<"t", "e", "x", "t", "_", "b", "o", "d", "y">>
      [] element_type = "text_headline" ->
            <<"t", "e", "x", "t", "_", "h", "e", "a", "d", "l", "i", "n", "e">>
      [] element_type = "texture_splat" ->
            <<"t", "e", "x", "t", "u", "r", "e", "_", "s", "p", "l", "a", "t">>
      [] element_type = "hologram_3d" ->
            <<"h", "o", "l", "o", "g", "r", "a", "m", "_", "3", "d">>
      [] element_type = "graphic_gui_recreation" ->
            <<"g", "r", "a", "p", "h", "i", "c", "_", "g", "u", "i", "_",
              "r", "e", "c", "r", "e", "a", "t", "i", "o", "n">>
      [] element_type = "unknown" ->
            <<"u", "n", "k", "n", "o", "w", "n">>

\* str.startswith(prefix)
StartsWith(chars, prefix) ==
    /\ Len(prefix) <= Len(chars)
    /\ SubSeq(chars, 1, Len(prefix)) = prefix

StartsWithTextNoUnderscore(element_type) ==
    StartsWith(Letters(element_type), <<"t", "e", "x", "t">>)

\* element_type.startswith("text_")
StartsWithText(element_type) ==
    StartsWith(Letters(element_type), <<"t", "e", "x", "t", "_">>)

\* element.get("type", "unknown")
TypeOf(e) == IF "type" \in DOMAIN e THEN e.type ELSE "unknown"

\* element.get("id", "unknown")
IdOf(e) == IF "id" \in DOMAIN e THEN e.id ELSE "unknown"

Raise(stage) ==
    /\ pc' = "Failed"
    /\ failure' = [stage |-> stage, at |-> Len(log)]

\* The except clause of the element loop, entered at element index i: the
\* error is logged and raised again.
ElementErrorSwallowed(i) == [pc |-> "Processing", idx |-> i + 1]

AfterElementError(i) == [pc |-> "Failed", idx |-> i]

\* compose_spread(layout_path, apply_artifacts) with no file at layout_path.
LayoutFileMissing ==
    /\ pc = "Idle"
    /\ Raise("layout")
    /\ UNCHANGED <<layout, apply_artifacts, page, idx, element_img, returned,
                   base, log, pastes, artifact_runs>>
    /\ UNCHANGED <<restVars, configVars, compositeVars, jitterVars>>

\* compose_spread(layout_path, apply_artifacts): the layout is read, a
\* document of at most MaxElements elements on its two pages.
LoadLayout ==
    /\ pc = "Idle"
    /\ \E nl \in 0..MaxElements, t \in Templates \cup {""}, a \in BOOLEAN :
        \E nr \in 0..(MaxElements - nl) :
            \E l \in [1..nl -> ElementPool], r \in [1..nr -> ElementPool] :
                /\ layout' = LayoutDocument(t, l, r)
                /\ apply_artifacts' = a
    /\ pc' = "LayoutLoaded"
    /\ UNCHANGED <<page, idx, element_img, returned, base, log, pastes,
                   artifact_runs, failure>>
    /\ UNCHANGED <<restVars, configVars, compositeVars, jitterVars>>

\* layout.get("canvas", "aged_newsprint")
Template == IF "canvas" \in DOMAIN layout THEN layout.canvas ELSE "aged_newsprint"

\* create_base_canvas(template) raising KeyError for an unknown template.
BaseCanvasFails ==
    /\ pc = "LayoutLoaded"
    /\ Template \notin DOMAIN MasterConfig.paper_colors
    /\ Raise("canvas")
    /\ UNCHANGED <<layout, apply_artifacts, page, idx, element_img, returned,
                   base, log, pastes, artifact_runs>>
    /\ UNCHANGED <<restVars, configVars, compositeVars, jitterVars>>

BaseCanvasCreated ==
    /\ pc = "LayoutLoaded"
    /\ Template \in DOMAIN MasterConfig.paper_colors
    /\ \E t \in Textures :
        /\ canvas' = CreateBaseCanvas(Template, t)
        /\ base' = CreateBaseCanvas(Template, t)
    /\ pc' = "Processing"
    /\ page' = 1
    /\ idx' = 0
    /\ UNCHANGED <<layout, apply_artifacts, element_img, returned, log, pastes,
                   artifact_runs, failure, pasted>>
    /\ UNCHANGED <<restVars, configVars, jitterVars>>

RenderFails(e) == IF StartsWithText(TypeOf(e)) THEN TextFails(e) ELSE AssetFails(e)

\* render_text_block or load_and_process_asset raising for the element.
RenderElementFails ==
    /\ pc = "Processing"
    /\ idx < Len(Elements)
    /\ RenderFails(Elements[idx + 1])
    /\ pc' = AfterElementError(idx).pc
    /\ idx' = AfterElementError(idx).idx
    /\ failure' = [stage |-> "render", at |-> Len(log)]
    /\ UNCHANGED <<layout, apply_artifacts, page, element_img, returned, base,
                   log, pastes, artifact_runs>>
    /\ UNCHANGED <<restVars, configVars, compositeVars, jitterVars>>

\* The element dispatched to render_text_block or load_and_process_asset.
RenderElement ==
    /\ pc = "Processing"
    /\ idx < Len(Elements)
    /\ LET e == Elements[idx + 1]
       IN /\ ~RenderFails(e)
          /\ element_img' = IF StartsWithText(TypeOf(e))
                            THEN RenderTextBlock(e)
                            ELSE LoadAndProcessAsset(e)
          /\ rng' = IF StartsWithText(TypeOf(e)) THEN rng ELSE RngAfterAsset(e)
    /\ log' = Append(log, [op |-> "render", page |-> PageKeys[page], k |-> idx + 1])
    /\ pc' = "Rendered"
    /\ UNCHANGED <<layout, apply_artifacts, page, idx, returned, base, pastes,
                   artifact_runs, failure, jitter, first_jitter>>
    /\ UNCHANGED <<restVars, configVars, compositeVars>>

\* tuple(element["position"]) raising KeyError.
PositionMissing ==
    /\ pc = "Rendered"
    /\ "position" \notin DOMAIN Elements[idx + 1]
    /\ pc' = AfterElementError(idx).pc
    /\ idx' = AfterElementError(idx).idx
    /\ failure' = [stage |-> "position", at |-> Len(log)]
    /\ UNCHANGED <<layout, apply_artifacts, page, element_img, returned, base,
                   log, pastes, artifact_runs>>
    /\ UNCHANGED <<restVars, configVars, compositeVars, jitterVars>>

\* composite_element(canvas, element_img, position, element_id)
CompositeRendered ==
    /\ pc = "Rendered"
    /\ "position" \in DOMAIN Elements[idx + 1]
    /\ LET e == Elements[idx + 1]
       IN CompositeElement(canvas, element_img, e.position[1], e.position[2],
                           IdOf(e))
    /\ pastes' = Append(pastes, [bm |-> element_img, x |-> pasted'.x,
                                 y |-> pasted'.y])
    /\ log' = Append(log, [op |-> "paste", page |-> PageKeys[page], k |-> idx + 1])
    /\ idx' = idx + 1
    /\ pc' = "Processing"
    /\ UNCHANGED <<layout, apply_artifacts, page, element_img, returned, base,
                   artifact_runs, failure>>
    /\ UNCHANGED <<restVars, configVars, jitterVars>>

\* The loop over the page keys moving on to the next page.
NextPage ==
    /\ pc = "Processing"
    /\ idx = Len(Elements)
    /\ page < Len(PageKeys)
    /\ page' = page + 1
    /\ idx' = 0
    /\ UNCHANGED <<pc, layout, apply_artifacts, element_img, returned, base,
                   log, pastes, artifact_runs, failure>>
    /\ UNCHANGED <<restVars, configVars, compositeVars, jitterVars>>

\* The loops are over: every element is composited.
ElementsDone ==
    /\ pc = "Processing"
    /\ idx = Len(Elements)
    /\ page = Len(PageKeys)
    /\ pc' = "Composited"
    /\ UNCHANGED <<layout, apply_artifacts, page, idx, element_img, returned,
                   base, log, pastes, artifact_runs, failure>>
    /\ UNCHANGED <<restVars, configVars, compositeVars, jitterVars>>

ApplyArtifacts ==
    /\ pc = "Composited"
    /\ apply_artifacts
    /\ canvas' = ApplyPrintArtifacts(canvas)
    /\ artifact_runs' = artifact_runs + 1
    /\ pc' = "ArtifactsApplied"
    /\ UNCHANGED <<layout, apply_artifacts, page, idx, element_img, returned,
                   base, log, pastes, failure, pasted>>
    /\ UNCHANGED <<restVars, configVars, jitterVars>>

\* A return that skips the artifact pass whatever apply_artifacts says.
ReturnWithoutArtifacts ==
    /\ pc = "Composited"
    /\ returned' = canvas
    /\ pc' = "Done"
    /\ UNCHANGED <<layout, apply_artifacts, page, idx, element_img, base, log,
                   pastes, artifact_runs, failure>>
    /\ UNCHANGED <<restVars, configVars, compositeVars, jitterVars>>

\* if apply_artifacts: canvas = self.apply_print_artifacts(canvas);
\* return canvas
ReturnCanvas ==
    /\ \/ pc = "ArtifactsApplied"
       \/ pc = "Composited" /\ ~apply_artifacts
    /\ returned' = canvas
    /\ pc' = "Done"
    /\ UNCHANGED <<layout, apply_artifacts, page, idx, element_img, base, log,
                   pastes, artifact_runs, failure>>
    /\ UNCHANGED <<restVars, configVars, compositeVars, jitterVars>>

NoPass == [engine |-> "none", step |-> 0, status |-> "idle"]

ArtifactsIdle ==
    /\ fx_image = NoCanvas
    /\ original = NoCanvas
    /\ effects = << >>
    /\ fx = NoPass
    /\ fx_config = [vignette |-> MasterConfig.vignette]
    /\ vignette_mask = NoCanvas

WrapIdle ==
    /\ content = << >>
    /\ wrap_width = 0
    /\ wrapped_lines = << >>
    /\ wraps = 0

AssetIdle ==
    /\ asset_config = << >>
    /\ asset_img = NoImage
    /\ returned_asset = NoImage
    /\ asset_status = "idle"

BaseIdle ==
    /\ base_status = "idle"
    /\ base_canvas = NoCanvas
    /\ shadow_mask = << >>

\* The keys of master_config.yaml that KlutzCompositor reads.
ConfigKeys ==
    {"technical.canvas_size", "technical.spine_width", "technical.binding",
     "aesthetic_rules.paper_colors", "aesthetic_rules.texture_opacity",
     "layout.spine_intrusion_buffer", "print_simulation", "typography",
     "assets.paths"}

NoValidator == [status |-> "none"]

NoCall == [site |-> "", outcome |-> ""]

\* The compositor constructed from a complete configuration file.
ConstructIdle ==
    /\ config_file = [present |-> TRUE, keys |-> ConfigKeys]
    /\ compositor = "constructed"
    /\ validator = NoValidator
    /\ call_site = NoCall

\* The output path before main() has run: no file, no parent directory.
NoOutput == [parent |-> FALSE, file |-> "absent"]

\* main() is not running; exit_code is -1 until main() returns.
MainIdle ==
    /\ main_pc = "NotRun"
    /\ main_error = ""
    /\ exit_code = -1
    /\ output = NoOutput

StagesIdle ==
    /\ ArtifactsIdle
    /\ WrapIdle
    /\ AssetIdle
    /\ BaseIdle
    /\ ConstructIdle
    /\ MainIdle

NoCheck == [element_type |-> << >>, rotation |-> 0, violations |-> 0]

RotationIdle ==
    /\ rotation_cfg = [present |-> FALSE, section |-> << >>]
    /\ rotation_limits = << >>
    /\ rotation_check = NoCheck

ThreadIdle == threads = << >>

NoValidated == [element |-> << >>, violations |-> 0, stage |-> "none"]

AgreeIdle == validated = NoValidated

NoStats == [total |-> 0, success |-> 0, failed |-> 0]

BatchIdle ==
    /\ batch_pc = "idle"
    /\ max_workers = 0
    /\ prompt_list = << >>
    /\ futures = << >>
    /\ stats = NoStats
    /\ metadata = << >>

NoGeneration ==
    [pc |-> "idle", mock_mode |-> TRUE, prompt |-> "", max_retries |-> 0, attempt |-> 0,
     attempts |-> << >>, waits |-> << >>, result |-> FALSE]

GenerateIdle == gen = NoGeneration

NoRetryConfig ==
    [retry_attempts |-> 0, base_delay |-> 0, max_delay |-> 0, mock_mode |-> TRUE]

NoTransform == [pc |-> "idle", elements |-> 0, element |-> 0]

NoApi == [attempt |-> 0, calls |-> << >>, wait_due |-> 0]

RetryIdle ==
    /\ retry_config = NoRetryConfig
    /\ transform = NoTransform
    /\ api = NoApi
    /\ prompts = << >>

LimiterIdle ==
    /\ clock = 0
    /\ rate_config = [requests_per_minute |-> 0, requests_per_hour |-> 0]
    /\ minute_calls = << >>
    /\ hour_calls = << >>
    /\ admitted = << >>

NoClient == [enable_cache |-> FALSE, mock_mode |-> TRUE]

NoFile == [exists |-> FALSE, readable |-> FALSE, timestamp |-> 0, response |-> ""]

NoReturn == [exists |-> FALSE, time |-> 0, response |-> ""]

NoPromptCall ==
    [made |-> FALSE, fresh |-> FALSE, found |-> "", recent |-> FALSE,
     prior |-> "", limiter_called |-> FALSE, api_called |-> FALSE,
     raised |-> FALSE, response |-> ""]

CacheIdle ==
    /\ now = 0
    /\ cache_client = NoClient
    /\ file_errors = FALSE
    /\ cache_files = << >>
    /\ last_return = << >>
    /\ last_call = NoPromptCall

NoPrompt == [made |-> FALSE, found |-> {}, raised |-> FALSE, xml |-> << >>]

PromptIdle ==
    /\ element_config = << >>
    /\ prompt_call = NoPrompt

PipelineIdle ==
    /\ RotationIdle
    /\ ThreadIdle
    /\ AgreeIdle
    /\ BatchIdle
    /\ GenerateIdle
    /\ RetryIdle
    /\ LimiterIdle
    /\ CacheIdle
    /\ PromptIdle

RestIdle == StagesIdle /\ PipelineIdle

SpreadIdle ==
    /\ pc = "Idle"
    /\ layout = NoLayout
    /\ apply_artifacts = TRUE
    /\ page = 1
    /\ idx = 0
    /\ element_img = NoImage
    /\ returned = NoCanvas
    /\ base = NoCanvas
    /\ log = << >>
    /\ pastes = << >>
    /\ artifact_runs = 0
    /\ failure = NoFailure

\* The compositor constructed and at rest.
StagesAtRest ==
    /\ Constructed(SpreadConfig, 0)
    /\ canvas = NoCanvas
    /\ pasted = NoPaste
    /\ JitterIdle
    /\ SpreadIdle
    /\ StagesIdle

OutsideRotation ==
    <<stageVars,
      threadVars,
      agreeVars,
      batchVars,
      generateVars,
      retryVars,
      limiterVars,
      cacheVars,
      promptVars>>

OnlyRotation ==
    /\ StagesAtRest
    /\ ThreadIdle
    /\ AgreeIdle
    /\ BatchIdle
    /\ GenerateIdle
    /\ RetryIdle
    /\ LimiterIdle
    /\ CacheIdle
    /\ PromptIdle

OutsideThread ==
    <<configVars, compositeVars, jitter, first_jitter, spreadVars,
      artifactVars, wrapVars, assetVars, baseVars, constructVars, mainVars,
      rotationVars,
      agreeVars,
      batchVars,
      generateVars,
      retryVars,
      limiterVars,
      cacheVars,
      promptVars>>

OnlyThread ==
    /\ Constructed(SpreadConfig, 0)
    /\ canvas = NoCanvas
    /\ pasted = NoPaste
    /\ jitter = NoJitter
    /\ first_jitter = NoJitter
    /\ SpreadIdle
    /\ StagesIdle
    /\ RotationIdle
    /\ AgreeIdle
    /\ BatchIdle
    /\ GenerateIdle
    /\ RetryIdle
    /\ LimiterIdle
    /\ CacheIdle
    /\ PromptIdle

OutsideAgree ==
    <<configVars, jitter, first_jitter, spreadVars, artifactVars, wrapVars,
      assetVars, baseVars, config_file, compositor, call_site, mainVars,
      rotationVars,
      threadVars,
      batchVars,
      generateVars,
      retryVars,
      limiterVars,
      cacheVars,
      promptVars>>

OnlyAgree ==
    /\ StagesAtRest
    /\ RotationIdle
    /\ ThreadIdle
    /\ BatchIdle
    /\ GenerateIdle
    /\ RetryIdle
    /\ LimiterIdle
    /\ CacheIdle
    /\ PromptIdle

OutsideBatch ==
    <<stageVars,
      rotationVars,
      threadVars,
      agreeVars,
      generateVars,
      retryVars,
      limiterVars,
      cacheVars,
      promptVars>>

OnlyBatch ==
    /\ StagesAtRest
    /\ RotationIdle
    /\ ThreadIdle
    /\ AgreeIdle
    /\ GenerateIdle
    /\ RetryIdle
    /\ LimiterIdle
    /\ CacheIdle
    /\ PromptIdle

OutsideGenerate ==
    <<stageVars,
      rotationVars,
      threadVars,
      agreeVars,
      batchVars,
      retryVars,
      limiterVars,
      cacheVars,
      promptVars>>

OnlyGenerate ==
    /\ StagesAtRest
    /\ RotationIdle
    /\ ThreadIdle
    /\ AgreeIdle
    /\ BatchIdle
    /\ RetryIdle
    /\ LimiterIdle
    /\ CacheIdle
    /\ PromptIdle

OutsideRetry ==
    <<stageVars,
      rotationVars,
      threadVars,
      agreeVars,
      batchVars,
      generateVars,
      limiterVars,
      cacheVars,
      promptVars>>

OnlyRetry ==
    /\ StagesAtRest
    /\ RotationIdle
    /\ ThreadIdle
    /\ AgreeIdle
    /\ BatchIdle
    /\ GenerateIdle
    /\ LimiterIdle
    /\ CacheIdle
    /\ PromptIdle

OutsideLimiter ==
    <<stageVars,
      rotationVars,
      threadVars,
      agreeVars,
      batchVars,
      generateVars,
      retryVars,
      cacheVars,
      promptVars>>

OnlyLimiter ==
    /\ StagesAtRest
    /\ RotationIdle
    /\ ThreadIdle
    /\ AgreeIdle
    /\ BatchIdle
    /\ GenerateIdle
    /\ RetryIdle
    /\ CacheIdle
    /\ PromptIdle

OutsideCache ==
    <<stageVars,
      rotationVars,
      threadVars,
      agreeVars,
      batchVars,
      generateVars,
      retryVars,
      limiterVars,
      promptVars>>

OnlyCache ==
    /\ StagesAtRest
    /\ RotationIdle
    /\ ThreadIdle
    /\ AgreeIdle
    /\ BatchIdle
    /\ GenerateIdle
    /\ RetryIdle
    /\ LimiterIdle
    /\ PromptIdle

OutsidePrompt ==
    <<stageVars,
      rotationVars,
      threadVars,
      agreeVars,
      batchVars,
      generateVars,
      retryVars,
      limiterVars,
      cacheVars>>

OnlyPrompt ==
    /\ StagesAtRest
    /\ RotationIdle
    /\ ThreadIdle
    /\ AgreeIdle
    /\ BatchIdle
    /\ GenerateIdle
    /\ RetryIdle
    /\ LimiterIdle
    /\ CacheIdle

InitSpread ==
    /\ \E b \in 0..MaxBuffer : Constructed(SpreadConfig, b)
    /\ canvas = NoCanvas
    /\ pasted = NoPaste
    /\ JitterIdle
    /\ SpreadIdle
    /\ RestIdle

NextSpread ==
    \/ LayoutFileMissing
    \/ LoadLayout
    \/ BaseCanvasFails
    \/ BaseCanvasCreated
    \/ RenderElementFails
    \/ RenderElement
    \/ PositionMissing
    \/ CompositeRendered
    \/ NextPage
    \/ ElementsDone
    \/ ApplyArtifacts
    \/ ReturnCanvas

SpecSpread == InitSpread /\ [][NextSpread]_vars

InitComposite ==
    /\ InitConfig
    /\ canvas = NoCanvas
    /\ pasted = NoPaste
    /\ JitterIdle
    /\ SpreadIdle
    /\ RestIdle

NextComposite ==
    CallCompositeElement /\ UNCHANGED <<jitterVars, spreadVars, restVars>>

SpecComposite == InitComposite /\ [][NextComposite]_vars

InitJitter ==
    /\ Constructed([w |-> 3400, s |-> 462], 0)
    /\ canvas = NoCanvas
    /\ pasted = NoPaste
    /\ rng \in 0..(RngModulus - 1)
    /\ jitter = NoJitter
    /\ first_jitter = NoJitter
    /\ SpreadIdle
    /\ RestIdle

NextJitter ==
    \/ CallGetChaosRotation /\ UNCHANGED <<restVars, configVars, compositeVars, spreadVars>>
    \/ OtherRandomDraw /\ UNCHANGED <<restVars, configVars, compositeVars, spreadVars>>
    \/ OtherRandomSeed /\ UNCHANGED <<restVars, configVars, compositeVars, spreadVars>>

SpecJitter == InitJitter /\ [][NextJitter]_vars

----------------------------------------------------------------------------
(* The artifact passes step by step: KlutzCompositor.apply_print_artifacts  *)
(* and PostProcessor.apply_all_artifacts (src/post_processor.py).  Here a   *)
(* pixel is [r, g]: the red band is the one the misregistration moves (the  *)
(* blue band is moved likewise, by the yellow shift), the green band stays. *)

Intensities == {15, 50, 100}

TestImages == {"flat", "ramp", "spot"}

TestImage(kind) ==
    [p \in Pixels(canvas_width, canvas_height) |->
        CASE kind = "flat" -> [r |-> 200, g |-> 200]
          [] kind = "ramp" -> [r |-> 30 * (p[1] + 1), g |-> 250 - 30 * p[1]]
          [] kind = "spot" -> IF p = <<0, 0>> THEN [r |-> 255, g |-> 0]
                              ELSE [r |-> 20, g |-> 255]]

CompositorStepsVignetteFirst == <<"vignette", "cmyk_shift", "dot_gain">>

\* The steps of apply_print_artifacts in the order of its statements.
CompositorSteps == <<"cmyk_shift", "dot_gain", "vignette">>

\* r.transform(size, AFFINE, (1, 0, mx, 0, 1, my)): the output pixel (x, y)
\* is the input pixel (x + mx, y + my), black where that is off the image.
Misregister(img, shift) ==
    [p \in DOMAIN img |->
        [r |-> IF <<p[1] + shift[1], p[2] + shift[2]>> \in DOMAIN img
               THEN img[<<p[1] + shift[1], p[2] + shift[2]>>].r
               ELSE 0,
         g |-> img[p].g]]

\* ImageEnhance.Brightness(image).enhance(dot_gain)
DotGainImage(img) ==
    [p \in DOMAIN img |-> [r |-> DotGain(img[p].r), g |-> DotGain(img[p].g)]]

\* The mask of the vignette loop for the intensity v.
CompositorMask(v) ==
    [p \in Pixels(canvas_width, canvas_height) |-> VignetteMaskAt(v, p)]

\* Image.composite(image, vignette_layer, vignette_mask), the layer black.
VignetteImage(img, mask) ==
    [p \in DOMAIN img |-> [r |-> PasteMix(0, img[p].r, mask[p]),
                           g |-> PasteMix(0, img[p].g, mask[p])]]

\* apply_print_artifacts(image) is called.
ApplyPrintArtifactsCall ==
    /\ fx = NoPass
    /\ \E kind \in TestImages, v \in Intensities :
        /\ fx_image' = TestImage(kind)
        /\ original' = TestImage(kind)
        /\ fx_config' = [vignette |-> v]
    /\ fx' = [engine |-> "compositor", step |-> 1, status |-> "running"]
    /\ UNCHANGED <<effects, vignette_mask>>

CompositorAt(name) ==
    /\ fx.engine = "compositor"
    /\ fx.status = "running"
    /\ CompositorSteps[fx.step] = name
    /\ effects' = Append(effects, name)
    /\ fx' = [fx EXCEPT !.step = fx.step + 1,
                        !.status = IF fx.step = Len(CompositorSteps)
                                   THEN "returned" ELSE "running"]
    /\ UNCHANGED <<original, fx_config>>

CmykMisregistration ==
    /\ CompositorAt("cmyk_shift")
    /\ fx_image' = Misregister(fx_image, MasterConfig.cmyk_shift.magenta)
    /\ UNCHANGED vignette_mask

DotGainStep ==
    /\ CompositorAt("dot_gain")
    /\ fx_image' = DotGainImage(fx_image)
    /\ UNCHANGED vignette_mask

VignetteStep ==
    /\ CompositorAt("vignette")
    /\ vignette_mask' = CompositorMask(fx_config.vignette)
    /\ fx_image' = VignetteImage(fx_image, CompositorMask(fx_config.vignette))

\* PostProcessor.apply_all_artifacts: a section of cfg is enabled ("on",
\* which is also what a section without an 'enabled' key is), disabled
\* ("off") or missing ("absent").
Flags == {"on", "off", "absent"}

PostProcessorSteps == <<"paper_texture", "cmyk_shift", "dot_gain", "vignette">>

\* _generate_paper_texture: noise * 0.1 + paper_color * 0.9, and
\* Image.blend(image, texture, alpha=0.08).
PaperTexture(img, t) ==
    [p \in DOMAIN img |->
        [r |-> (img[p].r * 92 + ((TextureValue(t, p) * 10 + 248 * 90) \div 100) * 8)
                   \div 100,
         g |-> (img[p].g * 92 + ((TextureValue(t, p) * 10 + 243 * 90) \div 100) * 8)
                   \div 100]]

\* ImageChops.offset(r, xoffset, yoffset): the band is moved by the offset
\* and wraps around the edges.
CmykOffset(img, shift) ==
    [p \in DOMAIN img |->
        [r |-> img[<<(p[1] - shift[1]) % canvas_width,
                     (p[2] - shift[2]) % canvas_height>>].r,
         g |-> img[p].g]]

\* apply_vignette: the mask starts at 0; 256 ellipses of shrinking radius
\* are filled with alpha = int(255 - opacity * i), opacity 0.15.
PostVignetteMask(p) ==
    LET larger == IF canvas_width > canvas_height THEN canvas_width
                  ELSE canvas_height
        max_radius == (15 * larger) \div 10
        dx == p[1] - canvas_width \div 2
        dy == p[2] - canvas_height \div 2
        inside == { i \in 0..255 :
                      dx * dx + dy * dy <=
                        ((max_radius * (255 - i)) \div 255)
                            * ((max_radius * (255 - i)) \div 255) }
    IN IF inside = {} THEN 0 ELSE (25500 - 15 * Max(inside)) \div 100

\* Image.composite(darkened, image, vignette_mask), darkened the image at
\* brightness 0.7.
PostVignette(img) ==
    [p \in DOMAIN img |->
        [r |-> PasteMix(img[p].r, (img[p].r * 70) \div 100, PostVignetteMask(p)),
         g |-> PasteMix(img[p].g, (img[p].g * 70) \div 100, PostVignetteMask(p))]]

\* apply_all_artifacts(image, config) is called.
ApplyAllArtifactsCall ==
    /\ fx = NoPass
    /\ \E kind \in TestImages :
        /\ fx_image' = TestImage(kind)
        /\ original' = TestImage(kind)
    /\ \E pt \in Flags, cs \in Flags, dg \in Flags, vg \in Flags :
        fx_config' = [paper_texture |-> pt, cmyk_shift |-> cs,
                      dot_gain |-> dg, vignette |-> vg]
    /\ fx' = [engine |-> "post_processor", step |-> 1, status |-> "running"]
    /\ UNCHANGED <<effects, vignette_mask>>

\* One `if cfg.get(name, {}).get('enabled', True):` block: skipped when the
\* section is disabled, a KeyError at cfg[name] when it is missing, and
\* otherwise the effect, applied to the result so far.
PostProcessorAt(name, result) ==
    /\ fx.engine = "post_processor"
    /\ fx.status = "running"
    /\ PostProcessorSteps[fx.step] = name
    /\ fx' = [fx EXCEPT !.step = fx.step + 1,
                        !.status = IF fx_config[name] = "absent" THEN "raised"
                                   ELSE IF fx.step = Len(PostProcessorSteps)
                                   THEN "returned" ELSE "running"]
    /\ effects' = IF fx_config[name] = "on" THEN Append(effects, name)
                  ELSE effects
    /\ fx_image' = IF fx_config[name] = "on" THEN result ELSE fx_image
    /\ UNCHANGED <<original, fx_config, vignette_mask>>

PostPaperTexture ==
    \E t \in Textures : PostProcessorAt("paper_texture", PaperTexture(fx_image, t))

PostCmykShift ==
    PostProcessorAt("cmyk_shift", CmykOffset(fx_image, MasterConfig.cmyk_shift.magenta))

PostDotGain == PostProcessorAt("dot_gain", DotGainImage(fx_image))

PostVignetteStep == PostProcessorAt("vignette", PostVignette(fx_image))

\* The images of the artifact passes are two rows high.
ArtifactCanvases == { [w |-> w, s |-> 1] : w \in 2..MaxCanvasWidth }

InitArtifacts ==
    /\ \E c \in ArtifactCanvases : Constructed(c, 0)
    /\ canvas = NoCanvas
    /\ pasted = NoPaste
    /\ JitterIdle
    /\ SpreadIdle
    /\ RestIdle

\* An artifact pass leaves the compositor and its canvas alone.
OutsideArtifacts ==
    <<configVars, compositeVars, jitterVars, spreadVars, wrapVars, assetVars,
      baseVars, constructVars,
      mainVars,
      pipelineVars>>

NextArtifacts ==
    \/ ApplyPrintArtifactsCall /\ UNCHANGED OutsideArtifacts
    \/ CmykMisregistration /\ UNCHANGED OutsideArtifacts
    \/ DotGainStep /\ UNCHANGED OutsideArtifacts
    \/ VignetteStep /\ UNCHANGED OutsideArtifacts
    \/ ApplyAllArtifactsCall /\ UNCHANGED OutsideArtifacts
    \/ PostPaperTexture /\ UNCHANGED OutsideArtifacts
    \/ PostCmykShift /\ UNCHANGED OutsideArtifacts
    \/ PostDotGain /\ UNCHANGED OutsideArtifacts
    \/ PostVignetteStep /\ UNCHANGED OutsideArtifacts

SpecArtifacts == InitArtifacts /\ [][NextArtifacts]_vars


----------------------------------------------------------------------------
(* The word wrap of render_text_block on its own (lines 389-419) *)

\* The words of the texts: one and two characters wide, and the empty word
\* that a doubled, leading or trailing space leaves in line.split(" ").
Words == {"A", "BB", ""}

\* The text of the wrap scenario: the one line "A B C D".
ScenarioText == << <<"A", "B", "C", "D">> >>

WrapIsIdle == wraps = 0 /\ wrapped_lines = << >>

\* The wrap loop run on the content.
WrapText ==
    /\ wraps = 0
    /\ wrapped_lines' = WrapContent(content, wrap_width)
    /\ wraps' = 1
    /\ UNCHANGED <<content, wrap_width>>

\* The wrapped lines, joined by newlines, wrapped once more.
WrapAgain ==
    /\ wraps = 1
    /\ wrapped_lines' = WrapContent(wrapped_lines, wrap_width)
    /\ wraps' = 2
    /\ UNCHANGED <<content, wrap_width>>

InitWrap ==
    /\ Constructed(SpreadConfig, 0)
    /\ canvas = NoCanvas
    /\ pasted = NoPaste
    /\ JitterIdle
    /\ SpreadIdle
    /\ ArtifactsIdle
    /\ AssetIdle
    /\ BaseIdle
    /\ ConstructIdle
    /\ MainIdle
    /\ PipelineIdle
    /\ \/ \E n \in 0..MaxWords, m \in 0..MaxWords :
            \E first \in [1..n -> Words], second \in [1..m -> Words] :
                content \in { <<first>>, <<first, second>> }
       \/ content = ScenarioText
    /\ wrap_width \in 1..MaxWrapWidth
    /\ WrapIsIdle

OutsideWrap ==
    <<configVars, compositeVars, jitterVars, spreadVars, artifactVars,
      assetVars, baseVars, constructVars,
      mainVars,
      pipelineVars>>

NextWrap ==
    \/ WrapText /\ UNCHANGED OutsideWrap
    \/ WrapAgain /\ UNCHANGED OutsideWrap

SpecWrap == InitWrap /\ [][NextWrap]_vars

----------------------------------------------------------------------------
(* load_and_process_asset on its own (lines 275-344) *)

\* The asset configurations explored: a file that is there or not, with or
\* without dimensions, a rotation magnitude and a border "<px>px solid
\* <color>" (given as the number before "px" and the colour of its last
\* seven characters).
WithField(e, present, field, value) ==
    IF present THEN [k \in DOMAIN e \cup {field} |->
                        IF k = field THEN value ELSE e[k]]
    ELSE e

AssetConfig(file, id, dims, rot, border) ==
    WithField(
        WithField(
            WithField([id |-> id, asset |-> file],
                      dims # << >>, "dimensions", dims),
            rot >= 0, "rotation", rot),
        border.px > 0, "border", [width |-> border.px, color |-> border.color])

\* The element without its border entry.
Unbordered(e) == [k \in DOMAIN e \ {"border"} |-> e[k]]

\* load_and_process_asset(asset_config) returning the processed asset.
LoadAsset ==
    /\ asset_status = "idle"
    /\ \E file \in DOMAIN GeneratedAssets, id \in ElementIds,
          dims \in {<< >>, <<1, 2>>}, rot \in -1..MaxRotation,
          px \in 0..MaxBorder, colour \in {Colour.border, Colour.ink} :
        LET e == AssetConfig(file, id, dims, rot, [px |-> px, color |-> colour])
        IN /\ asset_config' = e
           /\ asset_img' = LoadAndProcessAsset(Unbordered(e))
           /\ returned_asset' = LoadAndProcessAsset(e)
           /\ rng' = RngAfterAsset(e)
    /\ asset_status' = "returned"
    /\ UNCHANGED <<jitter, first_jitter>>

\* load_and_process_asset(asset_config) raising FileNotFoundError.
LoadAssetFails ==
    /\ asset_status = "idle"
    /\ asset_config' = [id |-> "R_ghost_01", asset |-> "ghost.png"]
    /\ AssetFails([id |-> "R_ghost_01", asset |-> "ghost.png"])
    /\ asset_status' = "raised"
    /\ UNCHANGED <<asset_img, returned_asset, jitterVars>>

InitAsset ==
    /\ Constructed(SpreadConfig, 0)
    /\ canvas = NoCanvas
    /\ pasted = NoPaste
    /\ rng \in 0..(RngModulus - 1)
    /\ jitter = NoJitter
    /\ first_jitter = NoJitter
    /\ SpreadIdle
    /\ RestIdle

OutsideAsset ==
    <<configVars, compositeVars, spreadVars, artifactVars, wrapVars, baseVars,
      constructVars, mainVars,
      pipelineVars>>

NextAsset ==
    \/ LoadAsset /\ UNCHANGED OutsideAsset
    \/ LoadAssetFails /\ UNCHANGED OutsideAsset

SpecAsset == InitAsset /\ [][NextAsset]_vars

----------------------------------------------------------------------------
(* create_base_canvas on its own (lines 134-273) *)

\* Canvases wide enough for a spine with room on both sides of it.
BaseConfigs ==
    { c \in [w : 6..(MaxCanvasWidth + 4), s : 2..MaxCanvasWidth] : c.s < c.w }

\* create_base_canvas(template) returning the canvas.
CreateBaseCanvasCall ==
    /\ base_status = "idle"
    /\ \E template \in DOMAIN MasterConfig.paper_colors, t \in Textures :
        base_canvas' = CreateBaseCanvas(template, t)
    /\ shadow_mask' = [k \in 1..canvas_width |-> ShadowMask(k - 1)]
    /\ base_status' = "created"

\* create_base_canvas(template) raising KeyError at self.colors[template].
CreateBaseCanvasFails ==
    /\ base_status = "idle"
    /\ \E template \in Templates : template \notin DOMAIN MasterConfig.paper_colors
    /\ base_status' = "raised"
    /\ UNCHANGED <<base_canvas, shadow_mask>>

InitBase ==
    /\ \E c \in BaseConfigs, b \in 0..MaxBuffer : Constructed(c, b)
    /\ canvas = NoCanvas
    /\ pasted = NoPaste
    /\ JitterIdle
    /\ SpreadIdle
    /\ RestIdle

OutsideBase ==
    <<configVars, compositeVars, jitterVars, spreadVars, artifactVars,
      wrapVars, assetVars, constructVars, mainVars,
      pipelineVars>>

NextBase ==
    \/ CreateBaseCanvasCall /\ UNCHANGED OutsideBase
    \/ CreateBaseCanvasFails /\ UNCHANGED OutsideBase

SpecBase == InitBase /\ [][NextBase]_vars

----------------------------------------------------------------------------
(* Construction from the master configuration file, and the call sites     *)
(* that read it: KlutzCompositor.__init__ (lines 54-92) and its methods,   *)
(* AssetValidator.__init__ (src/asset_validator.py lines 66-178).          *)

\* The keys __init__ subscripts (lines 75-88).
ConstructorKeys ==
    {"technical.canvas_size", "technical.spine_width",
     "aesthetic_rules.paper_colors"}

\* The methods that subscript self.config and the keys each one reads:
\* composite_element reads its key only for an element that intrudes.
CallSites ==
    [create_base_canvas |->
        {"aesthetic_rules.texture_opacity", "technical.binding", "print_simulation"},
     composite_element |-> {"layout.spine_intrusion_buffer"},
     load_and_process_asset |-> {"assets.paths"},
     render_text_block |-> {"assets.paths", "typography"},
     apply_print_artifacts |-> {"print_simulation"}]

\* self.config[...][...]: a KeyError when a key is not there.
Subscript(keys, needed) == IF needed \subseteq keys THEN "ok" ELSE "raised"

\* The fields a constructor has not set.
Unconstructed ==
    /\ canvas_width = 0
    /\ canvas_height = 0
    /\ spine_width = 0
    /\ spine_center = 0
    /\ spine_start = 0
    /\ spine_end = 0
    /\ buffer = 0

\* KlutzCompositor(config_path): FileNotFoundError without the file,
\* KeyError without one of the keys it subscripts.
ConstructCompositor ==
    /\ compositor = "none"
    /\ IF config_file.present
          /\ Subscript(config_file.keys, ConstructorKeys) = "ok"
       THEN /\ compositor' = "constructed"
            /\ canvas_width' = SpreadConfig.w
            /\ canvas_height' = 2
            /\ spine_width' = SpreadConfig.s
            /\ spine_center' = SpineCenterOf(SpreadConfig.w)
            /\ spine_start' = SpineStartOf(SpreadConfig.w, SpreadConfig.s)
            /\ spine_end' = SpineEndOf(SpreadConfig.w, SpreadConfig.s)
            /\ UNCHANGED buffer
       ELSE /\ compositor' = "raised"
            /\ UNCHANGED configVars
    /\ UNCHANGED <<config_file, validator, call_site>>

\* One of the compositor's methods reaching its self.config[...] reads.
CallMethod ==
    /\ compositor = "constructed"
    /\ call_site = NoCall
    /\ \E site \in DOMAIN CallSites :
        call_site' = [site |-> site,
                      outcome |-> Subscript(config_file.keys, CallSites[site])]
    /\ UNCHANGED <<config_file, compositor, validator, configVars>>

\* AssetValidator(config_path): no file gives self.config = {}, and every
\* value is read with a default.
ConstructValidator ==
    /\ validator = NoValidator
    /\ LET keys == IF config_file.present THEN config_file.keys ELSE {}
           w == IF "technical.canvas_size" \in keys THEN SpreadConfig.w ELSE 3400
       IN validator' =
            [status |-> "constructed",
             canvas_width |-> w,
             spine_start |-> IF "technical.spine_width" \in keys
                             THEN SpineStartOf(w, SpreadConfig.s) ELSE 1469,
             spine_end |-> IF "technical.spine_width" \in keys
                           THEN SpineEndOf(w, SpreadConfig.s) ELSE 1931]
    /\ UNCHANGED <<config_file, compositor, call_site, configVars>>

InitConstruct ==
    /\ Unconstructed
    /\ canvas = NoCanvas
    /\ pasted = NoPaste
    /\ JitterIdle
    /\ SpreadIdle
    /\ ArtifactsIdle
    /\ WrapIdle
    /\ AssetIdle
    /\ BaseIdle
    /\ MainIdle
    /\ PipelineIdle
    /\ \E present \in BOOLEAN, keys \in SUBSET ConfigKeys :
        config_file = [present |-> present,
                       keys |-> IF present THEN keys ELSE {}]
    /\ compositor = "none"
    /\ validator = NoValidator
    /\ call_site = NoCall

OutsideConstruct ==
    <<compositeVars, jitterVars, spreadVars, artifactVars, wrapVars, assetVars,
      baseVars, mainVars,
      pipelineVars>>

NextConstruct ==
    \/ ConstructCompositor /\ UNCHANGED OutsideConstruct
    \/ CallMethod /\ UNCHANGED OutsideConstruct
    \/ ConstructValidator /\ UNCHANGED OutsideConstruct

SpecConstruct == InitConstruct /\ [][NextConstruct]_vars

----------------------------------------------------------------------------
(* main (lines 657-724): the compositor is constructed, the spread is      *)
(* composed, the parent directory of the output path is made, the spread   *)
(* is saved and 0 is returned; any exception is caught and 1 is returned.  *)

Composing == main_pc = "Composing"

\* The except clause left out: the statement after the one that raised runs.
Uncaught(stage, next) == [pc |-> next, error |-> stage]

\* except Exception (line 721), entered from the stage that raised.
Caught(stage, next) == [pc |-> "Caught", error |-> stage]

\* compositor = KlutzCompositor(config_path=args.config)
MainConstruct ==
    /\ main_pc = "Start"
    /\ ConstructCompositor
    /\ main_pc' = IF compositor' = "raised"
                  THEN Caught("construct", "Composing").pc ELSE "Composing"
    /\ main_error' = IF compositor' = "raised"
                     THEN Caught("construct", "Composing").error ELSE ""
    /\ UNCHANGED <<exit_code, output>>
    /\ UNCHANGED <<compositeVars, jitterVars, spreadVars, artifactVars,
                   wrapVars, assetVars, baseVars, pipelineVars>>

\* compose_spread(...) has returned the spread.
ComposeReturns ==
    /\ Composing
    /\ pc = "Done"
    /\ main_pc' = "Composed"
    /\ UNCHANGED <<main_error, exit_code, output>>
    /\ UNCHANGED <<configVars, compositeVars, jitterVars, spreadVars,
                   artifactVars, wrapVars, assetVars, baseVars, constructVars,
                   pipelineVars>>

\* compose_spread(...) has raised.
ComposeRaises ==
    /\ Composing
    /\ pc = "Failed"
    /\ main_pc' = Caught("compose", "Composed").pc
    /\ main_error' = Caught("compose", "Composed").error
    /\ UNCHANGED <<exit_code, output>>
    /\ UNCHANGED <<configVars, compositeVars, jitterVars, spreadVars,
                   artifactVars, wrapVars, assetVars, baseVars, constructVars,
                   pipelineVars>>

\* output_path.parent.mkdir(parents=True, exist_ok=True), which the file
\* system may refuse.
MakeParent ==
    /\ main_pc = "Composed"
    /\ \E made \in BOOLEAN :
        IF made
        THEN /\ output' = [output EXCEPT !.parent = TRUE]
             /\ main_pc' = "DirMade"
             /\ UNCHANGED main_error
        ELSE /\ main_pc' = Caught("mkdir", "DirMade").pc
             /\ main_error' = Caught("mkdir", "DirMade").error
             /\ UNCHANGED output
    /\ UNCHANGED exit_code
    /\ UNCHANGED <<configVars, compositeVars, jitterVars, spreadVars,
                   artifactVars, wrapVars, assetVars, baseVars, constructVars,
                   pipelineVars>>

\* spread.save(output_path, "PNG"): the file holds the spread, or the write
\* fails and leaves no file or a truncated one.
SaveSpread ==
    /\ main_pc = "DirMade"
    /\ \/ /\ output' = [output EXCEPT !.file = "saved"]
          /\ main_pc' = "Saved"
          /\ UNCHANGED main_error
       \/ /\ \E left \in {"absent", "truncated"} :
                output' = [output EXCEPT !.file = left]
          /\ main_pc' = Caught("save", "Saved").pc
          /\ main_error' = Caught("save", "Saved").error
    /\ UNCHANGED exit_code
    /\ UNCHANGED <<configVars, compositeVars, jitterVars, spreadVars,
                   artifactVars, wrapVars, assetVars, baseVars, constructVars,
                   pipelineVars>>

\* return 0
ReturnZero ==
    /\ main_pc = "Saved"
    /\ exit_code' = 0
    /\ main_pc' = "Returned"
    /\ UNCHANGED <<main_error, output>>
    /\ UNCHANGED <<configVars, compositeVars, jitterVars, spreadVars,
                   artifactVars, wrapVars, assetVars, baseVars, constructVars,
                   pipelineVars>>

\* The except clause: the error is logged and printed, return 1.
ReturnOne ==
    /\ main_pc = "Caught"
    /\ exit_code' = 1
    /\ main_pc' = "Returned"
    /\ UNCHANGED <<main_error, output>>
    /\ UNCHANGED <<configVars, compositeVars, jitterVars, spreadVars,
                   artifactVars, wrapVars, assetVars, baseVars, constructVars,
                   pipelineVars>>

\* main() started with the configuration file there or not and with nothing
\* at the output path.
InitMain ==
    /\ Unconstructed
    /\ canvas = NoCanvas
    /\ pasted = NoPaste
    /\ JitterIdle
    /\ SpreadIdle
    /\ ArtifactsIdle
    /\ WrapIdle
    /\ AssetIdle
    /\ BaseIdle
    /\ PipelineIdle
    /\ \E present \in BOOLEAN :
        config_file = [present |-> present,
                       keys |-> IF present THEN ConfigKeys ELSE {}]
    /\ compositor = "none"
    /\ validator = NoValidator
    /\ call_site = NoCall
    /\ main_pc = "Start"
    /\ main_error = ""
    /\ exit_code = -1
    /\ output = NoOutput

NextMain ==
    \/ MainConstruct
    \/ LayoutFileMissing /\ Composing
    \/ LoadLayout /\ Composing
    \/ BaseCanvasFails /\ Composing
    \/ BaseCanvasCreated /\ Composing
    \/ RenderElementFails /\ Composing
    \/ RenderElement /\ Composing
    \/ PositionMissing /\ Composing
    \/ CompositeRendered /\ Composing
    \/ NextPage /\ Composing
    \/ ElementsDone /\ Composing
    \/ ApplyArtifacts /\ Composing
    \/ ReturnCanvas /\ Composing
    \/ ComposeReturns
    \/ ComposeRaises
    \/ MakeParent
    \/ SaveSpread
    \/ ReturnZero
    \/ ReturnOne

SpecMain == InitMain /\ [][NextMain]_vars

----------------------------------------------------------------------------
(* AssetValidator._check_rotation_limits (src/asset_validator.py lines     *)
(* 609-651) with self.rotation_limits as __init__ sets it (lines 180-206). *)
(* Type tags are sequences of characters, rotations whole degrees.         *)

Word_text == <<"t", "e", "x", "t">>

Word_container == <<"c", "o", "n", "t", "a", "i", "n", "e", "r">>

Word_photo == <<"p", "h", "o", "t", "o">>

Word_graphic == <<"g", "r", "a", "p", "h", "i", "c">>

\* The keys of self.rotation_limits, each with the key of rotation_cfg it is
\* read from and the default used when that key is missing.
LimitTable ==
    << [key |-> Word_text, from |-> "text", default |-> 5],
       [key |-> Word_text \o <<"_">> \o <<"h", "e", "a", "d", "l", "i", "n", "e">>,
        from |-> "text", default |-> 5],
       [key |-> Word_text \o <<"_", "b", "o", "d", "y">>,
        from |-> "text", default |-> 5],
       [key |-> Word_container \o <<"s">>, from |-> "containers", default |-> 15],
       [key |-> Word_container \o <<"_", "f", "e", "a", "t", "u", "r", "e", "b", "o", "x">>,
        from |-> "containers", default |-> 15],
       [key |-> Word_photo \o <<"s">>, from |-> "photos", default |-> 10],
       [key |-> Word_graphic \o <<"_">> \o Word_photo
                    \o <<"_", "i", "n", "s", "t", "r", "u", "c", "t", "i", "o", "n", "a", "l">>,
        from |-> "photos", default |-> 10] >>

\* rotation_cfg.get(name, default); without the rotation_limits section the
\* hardcoded limits are the same defaults.
CfgGet(cfg, name, default) == IF name \in DOMAIN cfg THEN cfg[name] ELSE default

\* self.rotation_limits as __init__ builds it from the section cfg, or from
\* the defaults when the configuration has no such section.
RotationLimitsOf(cfg) ==
    [k \in { LimitTable[i].key : i \in DOMAIN LimitTable } |->
        LET row == CHOOSE i \in DOMAIN LimitTable : LimitTable[i].key = k
        IN IF cfg.present
           THEN CfgGet(cfg.section, LimitTable[row].from, LimitTable[row].default)
           ELSE LimitTable[row].default]

\* The limits a configuration file sets.
ConfigLimits == {3, 20}

\* The rotation_limits sections of the configuration: any of the three keys
\* present or not.
RotationSections ==
    UNION { [keys -> ConfigLimits] : keys \in SUBSET {"text", "containers", "photos"} }

NoSection == [present |-> FALSE, section |-> << >>]

\* The type tags checked.
ElementTypeTags ==
    << Word_text \o <<"_", "b", "o", "d", "y">>,
       <<"T", "E", "X", "T">>,
       <<"s", "u", "b">> \o Word_text,
       Word_container \o <<"_", "s", "p", "l", "a", "t">>,
       Word_container \o <<"s">>,
       <<"C", "o", "n", "t", "a", "i", "n", "e", "r">>,
       Word_photo \o <<"_">> \o Word_text,
       Word_photo \o <<"s">>,
       Word_graphic \o <<"_", "g", "u", "i">>,
       <<"s", "p", "l", "a", "t">> >>

\* str.lower(), on the capitals that occur in the tags.
LowerChar(c) ==
    CASE c = "T" -> "t" [] c = "E" -> "e" [] c = "X" -> "x" [] c = "C" -> "c"
      [] OTHER -> c

Lower(chars) == [i \in DOMAIN chars |-> LowerChar(chars[i])]

\* sub in chars
Contains(chars, sub) ==
    \E i \in 1..(Len(chars) - Len(sub) + 1) :
        SubSeq(chars, i, i + Len(sub) - 1) = sub

\* The limit for element_type, or -1 for max_rotation = None.
MaxRotationFor(limits, element_type) ==
    IF element_type \in DOMAIN limits THEN limits[element_type]
    ELSE IF Contains(Lower(element_type), Word_text) THEN limits[Word_text]
    ELSE IF Contains(Lower(element_type), Word_container)
         THEN limits[Word_container \o <<"s">>]
    ELSE IF \/ Contains(Lower(element_type), Word_photo)
            \/ Contains(Lower(element_type), Word_graphic)
         THEN limits[Word_photo \o <<"s">>]
    ELSE -1

Abs(x) == IF x < 0 THEN -x ELSE x

ExceedsOrEquals(rotation, max_rotation) == Abs(rotation) >= max_rotation

\* abs(rotation) > max_rotation
Exceeds(rotation, max_rotation) == Abs(rotation) > max_rotation

\* _check_rotation_limits(element_id, element_type, rotation): the number of
\* violations in the list it returns.
CheckRotationLimits(limits, element_type, rotation) ==
    LET max_rotation == MaxRotationFor(limits, element_type)
    IN IF max_rotation # -1 /\ Exceeds(rotation, max_rotation) THEN 1 ELSE 0

\* One call on the validator constructed.
CallCheckRotationLimits ==
    /\ rotation_check = NoCheck
    /\ \E t \in DOMAIN ElementTypeTags, rotation \in (-MaxAngle)..MaxAngle :
        rotation_check' =
            [element_type |-> ElementTypeTags[t], rotation |-> rotation,
             violations |-> CheckRotationLimits(rotation_limits,
                                                ElementTypeTags[t], rotation)]
    /\ UNCHANGED <<rotation_cfg, rotation_limits>>

InitRotation ==
    /\ OnlyRotation
    /\ \/ rotation_cfg = NoSection
       \/ \E section \in RotationSections :
            rotation_cfg = [present |-> TRUE, section |-> section]
    /\ rotation_limits = RotationLimitsOf(rotation_cfg)
    /\ rotation_check = NoCheck

NextRotation == CallCheckRotationLimits /\ UNCHANGED OutsideRotation

SpecRotation == InitRotation /\ [][NextRotation]_vars

----------------------------------------------------------------------------
(* get_chaos_rotation called by two threads (lines 126-132): random.seed   *)
(* and random.uniform are two calls on the one generator of the process,   *)
(* and the other thread may run between them.                              *)

ThreadIds == {1, 2}

\* The other thread has touched the generator while thread t was between
\* its seed and its draw.
Disturb(t) ==
    IF threads[t].pc = "seeded"
    THEN [threads[t] EXCEPT !.disturbed = TRUE]
    ELSE threads[t]

\* random.seed(seed)
ThreadSeed(t) ==
    /\ threads[t].pc = "called"
    /\ rng' = RandomSeed(rng, Md5Seed(threads[t].id))
    /\ threads' = [u \in ThreadIds |->
                    IF u = t THEN [threads[t] EXCEPT !.pc = "seeded"]
                    ELSE Disturb(u)]

\* rotation = random.uniform(-max_rotation, max_rotation); return rotation
ThreadDraw(t) ==
    /\ threads[t].pc = "seeded"
    /\ rng' = RandomNext(rng)
    /\ threads' = [u \in ThreadIds |->
                    IF u = t
                    THEN [threads[t] EXCEPT
                            !.pc = "returned",
                            !.angle = Uniform(0 - threads[t].m, threads[t].m, rng')]
                    ELSE Disturb(u)]

\* Two threads have called get_chaos_rotation with different ids.
InitThreads ==
    /\ OnlyThread
    /\ rng \in 0..(RngModulus - 1)
    /\ \E id1 \in ElementIds :
        \E id2 \in ElementIds \ {id1}, m1 \in 0..MaxRotation, m2 \in 0..MaxRotation :
            threads = [t \in ThreadIds |->
                        [id |-> IF t = 1 THEN id1 ELSE id2,
                         m |-> IF t = 1 THEN m1 ELSE m2,
                         pc |-> "called", angle |-> 0, disturbed |-> FALSE]]

NextThreads ==
    \/ \E t \in ThreadIds : ThreadSeed(t) /\ UNCHANGED OutsideThread
    \/ \E t \in ThreadIds : ThreadDraw(t) /\ UNCHANGED OutsideThread

SpecThreads == InitThreads /\ [][NextThreads]_vars

----------------------------------------------------------------------------
(* A layout element validated and then composited under one configuration: *)
(* AssetValidator._check_spine_intrusion (src/asset_validator.py lines     *)
(* 571-607) on the declared position and dimensions, then the element      *)
(* loop's load_and_process_asset and composite_element.                    *)

\* _check_spine_intrusion(element_id, position, dimensions): the number of
\* violations in the list it returns.
CheckSpineIntrusion(v, position, dimensions) ==
    IF Len(position) < 2 \/ Len(dimensions) < 2 THEN 0
    ELSE LET element_left == position[1]
             element_right == position[1] + dimensions[1]
         IN IF element_left < v.spine_end /\ element_right > v.spine_start
            THEN 1 ELSE 0

\* validate_layout reaching an element of the layout: an asset with its
\* position and dimensions declared, with or without rotation and border.
ValidateElement ==
    /\ validator.status = "constructed"
    /\ validated = NoValidated
    /\ \E file \in DOMAIN GeneratedAssets, id \in ElementIds,
          x \in 0..(canvas_width - 1), w \in 1..MaxElemWidth,
          rot \in -1..MaxRotation, px \in 0..MaxBorder :
        LET e == WithField(
                    AssetConfig(file, id, <<w, 1>>, rot,
                                [px |-> px, color |-> Colour.border]),
                    TRUE, "position", <<x, 0>>)
        IN validated' =
            [element |-> e,
             violations |-> CheckSpineIntrusion(validator, e.position, e.dimensions),
             stage |-> "validated"]
    /\ UNCHANGED <<validator, compositeVars, rng>>

\* compose_spread reaching the same element: it is loaded and composited.
CompositeValidated ==
    /\ validated.stage = "validated"
    /\ LET e == validated.element
       IN /\ CompositeElement(BlankCanvas(canvas_width, canvas_height),
                              LoadAndProcessAsset(e), e.position[1],
                              e.position[2], e.id)
          /\ rng' = RngAfterAsset(e)
    /\ validated' = [validated EXCEPT !.stage = "composited"]
    /\ UNCHANGED validator

InitAgree ==
    /\ OnlyAgree
    /\ validated = NoValidated

NextAgree ==
    \/ ConstructValidator /\ UNCHANGED <<validated, compositeVars, rng>>
                          /\ UNCHANGED OutsideAgree
    \/ ValidateElement /\ UNCHANGED OutsideAgree
    \/ CompositeValidated /\ UNCHANGED OutsideAgree

SpecAgree == InitAgree /\ [][NextAgree]_vars

----------------------------------------------------------------------------
(* NanoBananaClient.batch_generate and _generate_with_timing               *)
(* (src/nano_banana_integration.py lines 166-297).                         *)

\* What a prompt of prompt_list is: the path of a well-formed prompt file,
\* of a file whose XML is malformed or lacks element_id, of a file that
\* cannot be read, or the XML itself instead of a path.
PromptKinds == {"wellformed", "malformed", "unreadable", "inline"}

\* How generate_asset(prompt_xml, output_path) can end for a prompt: it
\* returns False at once for XML it cannot use, raises where it cannot
\* read the file, and returns True or False after its attempts otherwise.
GenerateAssetEnds(kind) ==
    CASE kind = "malformed" -> {"false"}
      [] kind = "unreadable" -> {"raised"}
      [] OTHER -> {"true", "false"}

\* _generate_with_timing: success of the tuple it returns.
GenerateWithTiming(ended) == ended = "true"

\* The collecting loop reading element_id from the prompt file again:
\* open() or the parse raises for everything but a well-formed file.
ElementIdRead(kind) == kind = "wellformed"

CountNothing(s) == s

\* stats["failed"] += 1
CountFailed(s) == [s EXCEPT !.failed = @ + 1]

\* stats["success"] += 1
CountSuccess(s) == [s EXCEPT !.success = @ + 1]

RunningFutures == { i \in DOMAIN futures : futures[i].state = "running" }

PendingFutures == { i \in DOMAIN futures : futures[i].state = "pending" }

\* batch_generate(prompt_list, output_dir): stats is set up and every
\* prompt is submitted to the executor.
BatchGenerate ==
    /\ batch_pc = "idle"
    /\ \E n \in 0..MaxPrompts : \E kinds \in [1..n -> PromptKinds] :
        /\ prompt_list' = kinds
        /\ futures' = [i \in 1..n |->
                        [state |-> "pending", success |-> FALSE, collected |-> 0]]
        /\ stats' = [total |-> n, success |-> 0, failed |-> 0]
    /\ metadata' = << >>
    /\ batch_pc' = "collecting"
    /\ UNCHANGED max_workers

\* A worker thread of the pool takes the next task of the queue.
WorkerStart ==
    /\ batch_pc = "collecting"
    /\ PendingFutures # {}
    /\ Cardinality(RunningFutures) < max_workers
    /\ LET i == CHOOSE j \in PendingFutures : \A k \in PendingFutures : j <= k
       IN futures' = [futures EXCEPT ![i].state = "running"]
    /\ UNCHANGED <<batch_pc, max_workers, prompt_list, stats, metadata>>

\* A worker thread returns from _generate_with_timing.
WorkerFinish ==
    /\ \E i \in RunningFutures : \E ended \in GenerateAssetEnds(prompt_list[i]) :
        futures' = [futures EXCEPT ![i].state = "done",
                                   ![i].success = GenerateWithTiming(ended)]
    /\ UNCHANGED <<batch_pc, max_workers, prompt_list, stats, metadata>>

\* One round of the loop over as_completed(futures).
Collect ==
    /\ batch_pc = "collecting"
    /\ \E i \in DOMAIN futures :
        /\ futures[i].state = "done"
        /\ futures' = [futures EXCEPT ![i].state = "collected",
                                      ![i].collected = @ + 1]
        /\ IF ElementIdRead(prompt_list[i])
           THEN /\ metadata' = Append(metadata, [prompt |-> i,
                                        validation_passed |-> futures[i].success])
                /\ stats' = IF futures[i].success
                            THEN CountSuccess(stats) ELSE CountFailed(stats)
           ELSE /\ stats' = CountFailed(stats)
                /\ UNCHANGED metadata
    /\ UNCHANGED <<batch_pc, max_workers, prompt_list>>

\* The loop is over: the statistics are returned.
BatchReturns ==
    /\ batch_pc = "collecting"
    /\ \A i \in DOMAIN futures : futures[i].state = "collected"
    /\ batch_pc' = "returned"
    /\ UNCHANGED <<max_workers, prompt_list, futures, stats, metadata>>

InitBatch ==
    /\ OnlyBatch
    /\ batch_pc = "idle"
    /\ max_workers \in 1..MaxWorkers
    /\ prompt_list = << >>
    /\ futures = << >>
    /\ stats = NoStats
    /\ metadata = << >>

NextBatch ==
    \/ BatchGenerate /\ UNCHANGED OutsideBatch
    \/ WorkerStart /\ UNCHANGED OutsideBatch
    \/ WorkerFinish /\ UNCHANGED OutsideBatch
    \/ Collect /\ UNCHANGED OutsideBatch
    \/ BatchReturns /\ UNCHANGED OutsideBatch

SpecBatch == InitBatch /\ [][NextBatch]_vars

----------------------------------------------------------------------------
(* NanoBananaClient.generate_asset (src/nano_banana_integration.py lines   *)
(* 87-164).                                                                *)

\* The XML prompts: a well-formed one, and the ones the parse block turns
\* down (ET.ParseError, a missing element, a width that is no integer).
Prompts ==
    {"wellformed", "not_xml", "no_element_id", "no_positive_prompt",
     "no_negative_prompt", "width_not_int"}

\* Whether the try block of lines 100-123 goes through.
Parses(prompt) == prompt = "wellformed"

\* How one attempt can go, with _generate_mock_image or with _call_api: an
\* image that passes validation, an image that does not, no image (the call
\* returned False), or an exception.
AttemptOutcomes == {"valid", "invalid", "no_image", "raised"}

RECURSIVE Pow2(_)
Pow2(n) == IF n = 0 THEN 1 ELSE 2 * Pow2(n - 1)

InRangeInclusive(attempt, max_retries) == attempt <= max_retries

\* for attempt in range(max_retries)
InRange(attempt, max_retries) == attempt < max_retries

\* generate_asset(prompt_xml, output_path, max_retries) up to the loop.
GenerateAssetCall ==
    /\ gen.pc = "idle"
    /\ \E prompt \in Prompts, max_retries \in 0..MaxRetries :
        gen' = [gen EXCEPT !.prompt = prompt, !.max_retries = max_retries,
                           !.pc = IF Parses(prompt) THEN "loop" ELSE "returned",
                           !.result = FALSE]

\* One round of the loop: the attempt, and the wait before the next one.
Attempt ==
    /\ gen.pc = "loop"
    /\ InRange(gen.attempt, gen.max_retries)
    /\ \E outcome \in AttemptOutcomes :
        IF outcome = "valid"
        THEN gen' = [gen EXCEPT !.attempts = Append(@, outcome),
                                !.pc = "returned", !.result = TRUE]
        ELSE gen' = [gen EXCEPT
                        !.attempts = Append(@, outcome),
                        !.waits = IF gen.attempt < gen.max_retries - 1
                                  THEN Append(@, Pow2(gen.attempt)) ELSE @,
                        !.attempt = @ + 1]

\* The loop has run out: return False.
AttemptsExhausted ==
    /\ gen.pc = "loop"
    /\ ~InRange(gen.attempt, gen.max_retries)
    /\ gen' = [gen EXCEPT !.pc = "returned", !.result = FALSE]

\* The client constructed with an API key or, in mock mode, without.
InitGenerate ==
    /\ OnlyGenerate
    /\ \E mock_mode \in BOOLEAN : gen = [NoGeneration EXCEPT !.mock_mode = mock_mode]

NextGenerate ==
    \/ GenerateAssetCall /\ UNCHANGED OutsideGenerate
    \/ Attempt /\ UNCHANGED OutsideGenerate
    \/ AttemptsExhausted /\ UNCHANGED OutsideGenerate

SpecGenerate == InitGenerate /\ [][NextGenerate]_vars

----------------------------------------------------------------------------
(* GeminiClient.transform_layout_to_prompts, generate_component_prompt     *)
(* without a cache, and _call_api_with_retry (src/gemini_integration.py    *)
(* lines 198-311).                                                         *)

Min(a, b) == IF a < b THEN a ELSE b

\* min(base_delay * (2**attempt), max_delay)
BackoffDelay(attempt) ==
    Min(retry_config.base_delay * Pow2(attempt), retry_config.max_delay)

\* How one call of model.generate_content can end.
ApiOutcomes == {"text", "empty", "raised"}

\* prompts.append(prompt)
AppendPrompt(element, response) ==
    Append(prompts, [element |-> element, prompt |-> response])

\* The model calls made for the element so far.
CallsSoFar == IF api.attempt = 0 THEN << >> ELSE api.calls

\* The element loop moving on to the next element; the calls made for the
\* element stay on record until the next element's first call.
NextElement(calls) ==
    /\ transform' = [transform EXCEPT !.element = @ + 1]
    /\ api' = [attempt |-> 0, calls |-> calls, wait_due |-> 0]

\* transform_layout_to_prompts(layout_yaml): the layout is read.
TransformLayout ==
    /\ transform.pc = "idle"
    /\ \E n \in 1..MaxElements :
        transform' = [pc |-> "elements", elements |-> n, element |-> 1]
    /\ api' = NoApi
    /\ prompts' = << >>
    /\ UNCHANGED retry_config

AtElement ==
    /\ transform.pc = "elements"
    /\ transform.element <= transform.elements

\* _call_api_with_retry in mock mode: the mock response is returned.
MockResponse ==
    /\ AtElement
    /\ retry_config.mock_mode
    /\ prompts' = AppendPrompt(transform.element, "mock")
    /\ NextElement(<< >>)
    /\ UNCHANGED retry_config

\* One round of the retry loop: the model is called; a text is returned to
\* generate_component_prompt and appended; an empty response goes to the
\* next round; an exception waits and goes to the next round, or, in the
\* last round, is raised again and caught by the element loop.
ApiAttempt ==
    /\ AtElement
    /\ ~retry_config.mock_mode
    /\ api.attempt < retry_config.retry_attempts
    /\ \E outcome \in ApiOutcomes :
        LET call == [attempt |-> api.attempt, waited |-> api.wait_due,
                     outcome |-> outcome]
        IN CASE outcome = "text" ->
                    /\ prompts' = AppendPrompt(transform.element, "xml")
                    /\ NextElement(Append(CallsSoFar, call))
             [] outcome = "empty" ->
                    /\ api' = [attempt |-> api.attempt + 1,
                               calls |-> Append(CallsSoFar, call),
                               wait_due |-> 0]
                    /\ UNCHANGED <<transform, prompts>>
             [] outcome = "raised" ->
                    IF api.attempt < retry_config.retry_attempts - 1
                    THEN /\ api' = [attempt |-> api.attempt + 1,
                                    calls |-> Append(CallsSoFar, call),
                                    wait_due |-> BackoffDelay(api.attempt)]
                         /\ UNCHANGED <<transform, prompts>>
                    ELSE /\ NextElement(Append(CallsSoFar, call))
                         /\ UNCHANGED prompts
    /\ UNCHANGED retry_config

\* The retry loop has run out without raising: return "".
ApiReturnsEmpty ==
    /\ AtElement
    /\ ~retry_config.mock_mode
    /\ api.attempt >= retry_config.retry_attempts
    /\ prompts' = AppendPrompt(transform.element, "")
    /\ NextElement(CallsSoFar)
    /\ UNCHANGED retry_config

\* return prompts
TransformReturns ==
    /\ transform.pc = "elements"
    /\ transform.element > transform.elements
    /\ transform' = [transform EXCEPT !.pc = "returned"]
    /\ UNCHANGED <<retry_config, api, prompts>>

InitRetry ==
    /\ OnlyRetry
    /\ \E attempts \in 1..MaxRetries, delay \in {1, 2}, mock \in BOOLEAN :
        retry_config = [retry_attempts |-> attempts, base_delay |-> delay,
                        max_delay |-> 3, mock_mode |-> mock]
    /\ transform = NoTransform
    /\ api = NoApi
    /\ prompts = << >>

NextRetry ==
    \/ TransformLayout /\ UNCHANGED OutsideRetry
    \/ MockResponse /\ UNCHANGED OutsideRetry
    \/ ApiAttempt /\ UNCHANGED OutsideRetry
    \/ ApiReturnsEmpty /\ UNCHANGED OutsideRetry
    \/ TransformReturns /\ UNCHANGED OutsideRetry

SpecRetry == InitRetry /\ [][NextRetry]_vars

----------------------------------------------------------------------------
(* RateLimiter.wait_if_needed (src/gemini_integration.py lines 107-144),   *)
(* one caller, a clock in whole ticks.  The 60 second and the 3600 second  *)
(* window are scaled down to MinuteWindow and HourWindow ticks.            *)

\* [t for t in calls if current_time - t < window]
Recent(calls, current_time, window) ==
    LET Young(t) == current_time - t < window
    IN SelectSeq(calls, Young)

NoWait(window, current_time, first) == 0

\* wait_time = window - (current_time - calls[0]), slept if positive
WaitTime(window, current_time, first) ==
    IF window - (current_time - first) > 0
    THEN window - (current_time - first)
    ELSE 0

\* How long wait_if_needed sleeps for the list calls when the limit is
\* reached.
SleepFor(calls, limit, window, current_time) ==
    IF Len(calls) >= limit THEN WaitTime(window, current_time, calls[1]) ELSE 0

\* wait_if_needed(): the lists are cleaned, the two sleeps are taken (the
\* second computed with the time read at the start), the time is read again
\* and recorded.
WaitIfNeeded ==
    LET current_time == clock
        minute == Recent(minute_calls, current_time, MinuteWindow)
        hour == Recent(hour_calls, current_time, HourWindow)
        recorded == current_time
                    + SleepFor(minute, rate_config.requests_per_minute,
                               MinuteWindow, current_time)
                    + SleepFor(hour, rate_config.requests_per_hour,
                               HourWindow, current_time)
    IN /\ recorded <= MaxClock
       /\ clock' = recorded
       /\ minute_calls' = Append(minute, recorded)
       /\ hour_calls' = Append(hour, recorded)
       /\ admitted' = Append(admitted, recorded)
       /\ UNCHANGED rate_config

\* Time passes between two calls.
Tick ==
    /\ clock < MaxClock
    /\ clock' = clock + 1
    /\ UNCHANGED <<rate_config, minute_calls, hour_calls, admitted>>

InitLimiter ==
    /\ OnlyLimiter
    /\ clock = 0
    /\ \E per_minute \in 1..MaxPerMinute, per_hour \in 1..(MaxPerMinute + 1) :
        rate_config = [requests_per_minute |-> per_minute,
                  requests_per_hour |-> per_hour]
    /\ minute_calls = << >>
    /\ hour_calls = << >>
    /\ admitted = << >>

NextLimiter ==
    \/ WaitIfNeeded /\ UNCHANGED OutsideLimiter
    \/ Tick /\ UNCHANGED OutsideLimiter

SpecLimiter == InitLimiter /\ [][NextLimiter]_vars

----------------------------------------------------------------------------
(* ResponseCache and GeminiClient.generate_component_prompt                *)
(* (src/gemini_integration.py lines 47-104 and 233-263).  Time is counted  *)
(* in ticks, 24 hours being Day ticks.                                     *)

\* The (element_type, params) pairs called with: argument k has the element
\* id ElementIdOf[k]; arguments 1 and 2 differ only in a parameter that
\* _build_user_prompt does not read.
Arguments == 1..2

ElementIdOf == <<"L_photo_01", "L_photo_01">>

\* _build_user_prompt(element_type, params): the text depends on the id, the
\* type, the dimensions, the position and the type's details only.
UserPrompt(argument) == ElementIdOf[argument]

\* cache_key = f"{system_prompt}|||{user_prompt}", hashed by _get_cache_key
CacheKey(argument) == <<"system_prompt", UserPrompt(argument)>>

CacheKeys == { CacheKey(argument) : argument \in Arguments }

NeverExpires(age) == TRUE

\* datetime.now() - cached_time < timedelta(hours=24)
StillValid(age) == age < Day

\* ResponseCache.get: the response of a file that exists, can be read and
\* is still valid; "" stands for None.
CacheGet(file) ==
    IF file.exists /\ file.readable /\ StillValid(now - file.timestamp)
    THEN file.response
    ELSE ""

\* What open(cache_file, "w") and json.dump leave behind: the entry, the
\* file as it was when open fails, a file cut short when the dump fails.
WriteResults == IF file_errors THEN {"written", "open_fails", "dump_fails"}
                ELSE {"written"}

\* ResponseCache.set
CacheSet(file, response, write) ==
    CASE write = "written" ->
            [exists |-> TRUE, readable |-> TRUE, timestamp |-> now,
             response |-> response]
      [] write = "open_fails" -> file
      [] write = "dump_fails" ->
            [exists |-> TRUE, readable |-> FALSE, timestamp |-> 0,
             response |-> ""]

\* What _call_api_with_retry does: the mock response in mock mode, else a
\* text of the model, "" after an empty last attempt, or it raises.
ApiResults ==
    IF cache_client.mock_mode THEN {"mock"}
    ELSE {"xml_a", "xml_b", "", "raises"}

Returned(argument, response) ==
    IF response = "" THEN last_return
    ELSE [last_return EXCEPT ![argument] =
            [exists |-> TRUE, time |-> now, response |-> response]]

\* A file that exists, can be read, and was written less than 24 hours ago.
Fresh(file) ==
    file.exists /\ file.readable /\ now - file.timestamp < Day

\* The same arguments returned a non-empty response less than 24 hours ago.
ReturnedLately(argument) ==
    last_return[argument].exists /\ now - last_return[argument].time < Day

\* generate_component_prompt(element_type, params)
GenerateComponentPrompt(argument) ==
    LET file == cache_files[CacheKey(argument)]
        cached_response == IF cache_client.enable_cache THEN CacheGet(file)
                           ELSE ""
        call == [made |-> TRUE, fresh |-> Fresh(file),
                 found |-> file.response, recent |-> ReturnedLately(argument),
                 prior |-> last_return[argument].response,
                 limiter_called |-> FALSE, api_called |-> FALSE,
                 raised |-> FALSE, response |-> ""]
    IN IF cached_response # ""
       THEN /\ last_call' = [call EXCEPT !.response = cached_response]
            /\ last_return' = Returned(argument, cached_response)
            /\ UNCHANGED <<now, cache_client, file_errors, cache_files>>
       ELSE \E result \in ApiResults, write \in WriteResults :
            LET response == IF result = "raises" THEN "" ELSE result
            IN /\ last_call' =
                    [call EXCEPT !.api_called = TRUE,
                                 !.limiter_called = ~cache_client.mock_mode,
                                 !.raised = (result = "raises"),
                                 !.response = response]
               /\ last_return' = Returned(argument, response)
               /\ cache_files' =
                    IF cache_client.enable_cache /\ response # ""
                    THEN [cache_files EXCEPT ![CacheKey(argument)] =
                            CacheSet(file, response, write)]
                    ELSE cache_files
               /\ UNCHANGED <<now, cache_client, file_errors>>

\* A cache file is damaged between two calls.
DamageFile ==
    /\ file_errors
    /\ \E cache_key \in CacheKeys :
        /\ cache_files[cache_key].exists
        /\ cache_files[cache_key].readable
        /\ cache_files' = [cache_files EXCEPT ![cache_key].readable = FALSE]
    /\ UNCHANGED <<now, cache_client, file_errors, last_return, last_call>>

\* Time passes between two calls.
TimePasses ==
    /\ now < MaxNow
    /\ now' = now + 1
    /\ UNCHANGED <<cache_client, file_errors, cache_files, last_return,
                   last_call>>

InitCache ==
    /\ OnlyCache
    /\ now = 0
    /\ cache_client \in [enable_cache : BOOLEAN, mock_mode : BOOLEAN]
    /\ file_errors \in BOOLEAN
    /\ cache_files = [cache_key \in CacheKeys |-> NoFile]
    /\ last_return = [argument \in Arguments |-> NoReturn]
    /\ last_call = NoPromptCall

NextCache ==
    \/ \E argument \in Arguments :
        GenerateComponentPrompt(argument) /\ UNCHANGED OutsideCache
    \/ DamageFile /\ UNCHANGED OutsideCache
    \/ TimePasses /\ UNCHANGED OutsideCache

SpecCache == InitCache /\ [][NextCache]_vars

----------------------------------------------------------------------------
(* PromptGenerator (src/prompt_generator.py): generate_element_prompt with *)
(* the embedded templates.  A text is the sequence of its lines; the       *)
(* indentation of a line is left out.                                      *)

\* _load_forbidden_terms
ForbiddenTerms ==
    {"gradient", "web 2.0", "flat design", "material design", "minimalist",
     "responsive", "user experience", "UX", "UI", "wireframe", "mobile",
     "touch", "swipe", "drag and drop", "USB", "wireless", "bluetooth",
     "LED", "LCD", "plasma", "broadband", "wifi", "streaming", "social media",
     "tweet", "post", "share", "like", "hashtag", "smartphone", "tablet",
     "app", "notification", "cloud", "sync", "HD", "4K", "1080p",
     "widescreen", "16:9", "retina", "SSD", "flash drive", "emoji",
     "gif", "meme", "Google", "Facebook", "Twitter", "Instagram",
     "Pinterest", "Windows 95", "Windows 98", "Windows XP", "opacity slider",
     "layer mask", "SVG", "photoshop"}

\* _get_template_key: type_mapping.get(element_type, "photo")
TypeMapping ==
    [graphic_photo_instructional |-> "photo",
     graphic_gui_recreation |-> "gui",
     graphic_pixelart |-> "pixelart",
     container_featurebox |-> "container",
     container_splat |-> "container",
     text_headline |-> "text",
     doodle |-> "doodle"]

GetTemplateKey(element_type) ==
    IF element_type \in DOMAIN TypeMapping THEN TypeMapping[element_type]
    ELSE "photo"

\* _get_photo_template
PhotoTemplate ==
    [positive |->
        <<"Professional instructional photograph circa 1996, ${SUBJECT},",
          "shot on Kodak Gold 400 35mm film, moderate grain visible, slight warm color cast,",
          "clean composition, high-angle view, sharp focus throughout, even lighting from softbox",
          "creating soft shadows, educational photography style, bright and cheerful mood,",
          "period-accurate hardware visible">>,
     negative |->
        <<"modern optical mouse, wireless mouse, gaming mouse, RGB lighting,",
          "dramatic lighting, shallow depth of field, bokeh, digital photography,",
          "clean grain-free image, HDR, post-processing effects, color grading,",
          "Instagram filters, low key lighting, dark mood, modern technology,",
          "smartphone, tablet, LCD screen, LED lighting">>]

\* _get_container_template
ContainerTemplate ==
    [positive |->
        <<"1996 Klutz Press style irregular shape container,",
          "hand-drawn appearance, hard black outline ${BORDER_COLOR} exactly 4 pixels wide,",
          "solid fill color ${FILL_COLOR}, hard drop shadow 3 pixels right and 3 pixels down",
          "pure black, no gradients, no soft edges, no antialiasing, bold primary colors,",
          "energetic Nickelodeon-style shape, clean sharp edges">>,
     negative |->
        <<"gradient fills, soft shadows, drop shadow blur,",
          "antialiasing, smooth edges, rounded corners with feathering,",
          "opacity variations, layer effects, modern flat design,",
          "material design, web 2.0 aesthetics, subtle shading,",
          "three-dimensional effects, emboss, bevel">>]

\* _get_gui_template
GuiTemplate ==
    [positive |->
        <<"Exact pixel-perfect recreation of 1996 ${SOFTWARE} interface,",
          "Macintosh System 6 style, monochrome black and white display,",
          "512x342 resolution, hard-edged pixels, no antialiasing,",
          "classic Mac OS menu bar, tool palette with grid layout,",
          "bitmapped Chicago font for labels, crisp pixel boundaries,",
          "authentic period software interface">>,
     negative |->
        <<"modern software interface, color GUI, Windows interface,",
          "antialiased text, smooth fonts, TrueType rendering, gradient buttons,",
          "drop shadows on UI elements, transparency effects, modern icons,",
          "flat design, material design, iOS interface, rounded UI elements,",
          "touch interface elements, mobile UI patterns">>]

\* _get_pixelart_template
PixelartTemplate ==
    [positive |->
        <<"Pixel art sprite, NES/SNES era style, 16x16 grid,",
          "16-color palette maximum, hard pixel edges, nearest-neighbor scaling,",
          "no antialiasing, no sub-pixel rendering, clean pixel boundaries,",
          "classic video game sprite aesthetic, bold readable shapes,",
          "high contrast between colors, Nintendo-style character design">>,
     negative |->
        <<"antialiased edges, smooth gradients, soft shadows,",
          "blurred pixels, sub-pixel rendering, rotated pixels,",
          "modern high-resolution sprites, too many colors,",
          "smooth shading, dithering gradients, photo-realistic textures,",
          "3D rendered sprites, modern game graphics">>]

\* _get_text_template
TextTemplate ==
    [positive |->
        <<"1996 desktop publishing typography, ${FONT} font,",
          "bitmapped font rendering at exact pixel sizes, no antialiasing,",
          "hard pixel edges on letterforms, high contrast black on white,",
          "clean baseline alignment, proper kerning for display text,",
          "bold energetic headline style">>,
     negative |->
        <<"antialiased text, smooth font rendering, TrueType hinting,",
          "sub-pixel antialiasing, gradient text fills, drop shadow on text,",
          "text effects, 3D text, embossed text, outlined text with soft edges,",
          "modern web fonts, variable fonts">>]

\* _get_doodle_template
DoodleTemplate ==
    [positive |->
        <<"Hand-drawn doodle illustration, thick black marker line art,",
          "Klutz Press style, energetic imperfect lines, cartoon style,",
          "simple bold shapes, high contrast, solid black lines on white,",
          "playful energetic style, visible pen strokes, authentic hand-drawn look,",
          "no computer perfection">>,
     negative |->
        <<"vector graphics, perfectly smooth curves, Bezier paths,",
          "uniform line weight, computer-generated symmetry, gradient strokes,",
          "soft edges, antialiasing, digital brush effects, Photoshop brushes,",
          "tablet pen pressure variation, modern digital illustration">>]

\* _load_templates with no templates directory: default_templates
EmbeddedTemplates ==
    [photo |-> PhotoTemplate, container |-> ContainerTemplate,
     gui |-> GuiTemplate, pixelart |-> PixelartTemplate,
     text |-> TextTemplate, doodle |-> DoodleTemplate]

\* config.get(key, default)
ConfigGet(config, key, default) ==
    IF key \in DOMAIN config THEN config[key] ELSE default

\* The variables of _generate_prompts_from_template that the embedded
\* templates refer to.
SubstitutionVariables(config) ==
    [SUBJECT |-> ConfigGet(config, "subject", "computer hardware"),
     SOFTWARE |-> ConfigGet(config, "software", "MacPaint"),
     BORDER_COLOR |-> ConfigGet(config, "border_color", "#000000"),
     FILL_COLOR |-> ConfigGet(config, "fill_color", "#F57D0D"),
     FONT |-> ConfigGet(config, "font", "Chicago")]

VariableNames == <<"SUBJECT", "SOFTWARE", "BORDER_COLOR", "FILL_COLOR", "FONT">>

\* The places of sub in text.
Places(text, sub) ==
    { i \in 1..(Len(text) - Len(sub) + 1) :
        SubSeq(text, i, i + Len(sub) - 1) = sub }

\* text with its ${name} replaced by value (a template line names a
\* variable at most once).
Replace(text, name, value) ==
    LET placeholder == "${" \o name \o "}"
        places == Places(text, placeholder)
    IN IF places = {} THEN text
       ELSE LET i == CHOOSE p \in places : \A other \in places : p <= other
            IN SubSeq(text, 1, i - 1) \o value
               \o SubSeq(text, i + Len(placeholder), Len(text))

RECURSIVE SubstituteFrom(_, _, _)
SubstituteFrom(text, variables, k) ==
    IF k > Len(VariableNames) THEN text
    ELSE SubstituteFrom(Replace(text, VariableNames[k],
                                variables[VariableNames[k]]),
                        variables, k + 1)

\* Template(template).safe_substitute(variables), line by line
SafeSubstitute(lines, variables) ==
    [k \in DOMAIN lines |-> SubstituteFrom(lines[k], variables, 1)]

\* _generate_prompts_from_template(template_key, config)
GeneratePromptsFromTemplate(template_key, config) ==
    LET template == EmbeddedTemplates[template_key]
        variables == SubstitutionVariables(config)
    IN [positive |-> SafeSubstitute(template.positive, variables),
        negative |-> SafeSubstitute(template.negative, variables)]

\* <tag>text</tag>
Leaf(tag, text) == "<" \o tag \o ">" \o text \o "</" \o tag \o ">"

\* _add_image_specs
ImageSpecs(config) ==
    LET dimensions == ConfigGet(config, "dimensions", <<800, 600>>)
    IN <<"<image_specifications>",
         "<dimensions width=\"" \o ToString(dimensions[1])
            \o "\" height=\"" \o ToString(dimensions[2])
            \o "\" dpi=\"" \o ToString(ConfigGet(config, "dpi", 300)) \o "\"/>",
         Leaf("color_space", ConfigGet(config, "color_space", "sRGB")),
         "</image_specifications>">>

\* _add_photo_parameters and _add_lighting_setup
PhotoParameters(config) ==
    <<"<photographic_parameters>",
      Leaf("film_stock", ConfigGet(config, "film_stock", "Kodak Gold 400")),
      Leaf("grain_intensity", ConfigGet(config, "grain", "moderate")),
      "<color_characteristics>",
      Leaf("highlights", "warm_bias"),
      Leaf("shadows", "cyan_shift"),
      "</color_characteristics>",
      Leaf("lens", ConfigGet(config, "lens", "100mm macro")),
      Leaf("aperture", ConfigGet(config, "aperture", "f/11")),
      "<lighting_setup>",
      "<key_light>",
      Leaf("type", "24x36 inch softbox"),
      Leaf("position", "45 degrees camera left"),
      Leaf("elevation", "30 degrees above subject"),
      Leaf("power", "full"),
      "</key_light>",
      "<fill_light>",
      Leaf("type", "white foam core reflector"),
      Leaf("position", "60 degrees camera right"),
      Leaf("ratio", "1:2 relative to key"),
      "</fill_light>",
      "</lighting_setup>",
      "</photographic_parameters>">>

\* _add_gui_parameters
GuiParameters(config) ==
    <<"<gui_parameters>",
      Leaf("software", ConfigGet(config, "software", "MacPaint")),
      "<display_specifications>",
      Leaf("resolution", ConfigGet(config, "resolution", "512x342")),
      Leaf("color_depth", ConfigGet(config, "color_depth", "monochrome")),
      "</display_specifications>",
      Leaf("interface_style", "1996 Macintosh System 6"),
      "</gui_parameters>">>

\* _add_pixelart_parameters
PixelartParameters(config) ==
    <<"<pixelart_parameters>",
      Leaf("grid_size", ConfigGet(config, "grid_size", "16x16")),
      Leaf("color_palette", ConfigGet(config, "palette", "16-color")),
      Leaf("scaling_method", "nearest-neighbor"),
      Leaf("pixel_style", ConfigGet(config, "style", "NES/SNES era sprite")),
      "</pixelart_parameters>">>

\* _add_container_parameters
ContainerParameters(config) ==
    <<"<container_parameters>",
      Leaf("shape", ConfigGet(config, "shape", "irregular blob")),
      "<border>",
      Leaf("width", ConfigGet(config, "border_width", "4px")),
      Leaf("color", ConfigGet(config, "border_color", "#000000")),
      "</border>",
      Leaf("fill", ConfigGet(config, "fill_color", "#F57D0D")),
      Leaf("shadow", "hard drop shadow, 3px right, 3px down, pure black"),
      "</container_parameters>">>

\* The type-specific parameters of generate_element_prompt
TypeParameters(template_key, config) ==
    CASE template_key = "photo" -> PhotoParameters(config)
      [] template_key = "gui" -> GuiParameters(config)
      [] template_key = "pixelart" -> PixelartParameters(config)
      [] template_key = "container" -> ContainerParameters(config)
      [] OTHER -> << >>

\* The lines of <tag>text</tag> for a text of several lines
Wrapped(tag, lines) ==
    [k \in DOMAIN lines |->
        (IF k = 1 THEN "<" \o tag \o ">" ELSE "")
        \o lines[k]
        \o (IF k = Len(lines) THEN "</" \o tag \o ">" ELSE "")]

\* The XML string generate_element_prompt builds and _prettify_xml prints
XmlString(config) ==
    LET template_key == GetTemplateKey(ConfigGet(config, "type", "photo"))
        generated == GeneratePromptsFromTemplate(template_key, config)
    IN <<"<?xml version=\"1.0\" ?>", "<nano_banana_prompt>",
         Leaf("element_id", ConfigGet(config, "id", "unknown"))>>
       \o ImageSpecs(config)
       \o TypeParameters(template_key, config)
       \o Wrapped("positive_prompt", generated.positive)
       \o Wrapped("negative_prompt", generated.negative)
       \o <<"</nano_banana_prompt>">>

UpperCase == "ABCDEFGHIJKLMNOPQRSTUVWXYZ"

LowerCase == "abcdefghijklmnopqrstuvwxyz"

LowerLetter(c) ==
    LET places == Places(UpperCase, c)
    IN IF places = {} THEN c
       ELSE LET i == CHOOSE p \in places : TRUE
            IN SubSeq(LowerCase, i, i)

\* text.lower()
RECURSIVE LowerText(_)
LowerText(text) ==
    IF Len(text) = 0 THEN text
    ELSE IF Len(text) = 1 THEN LowerLetter(text)
    ELSE LowerText(SubSeq(text, 1, Len(text) \div 2))
         \o LowerText(SubSeq(text, Len(text) \div 2 + 1, Len(text)))

\* term_lower in xml_lower: no forbidden term holds a line break, so the
\* term is in the string when it is in one of the lines.
TermIn(xml_lower, term_lower) ==
    \E k \in DOMAIN xml_lower : Places(xml_lower[k], term_lower) # {}

\* found_terms of _validate_prompt(xml_string)
FoundTerms(xml_string) ==
    LET xml_lower == [k \in DOMAIN xml_string |-> LowerText(xml_string[k])]
    IN { term \in ForbiddenTerms : TermIn(xml_lower, LowerText(term)) }

\* The element types of type_mapping, and one it does not know.
ElementTypes == DOMAIN TypeMapping \cup {"hologram_3d"}

\* A config with id, type and dimensions only.
MinimalConfig(id, element_type) ==
    [id |-> id, type |-> element_type, dimensions |-> <<800, 600>>]

Subjects == {"beige two-button mouse", "USB hub"}

Softwares == {"MacPaint", "Photoshop 3.0"}

\* The values a caller adds to a config: none, a subject, a software, both.
CallerValues ==
    {<< >>}
    \cup { [subject |-> subject] : subject \in Subjects }
    \cup { [software |-> software] : software \in Softwares }
    \cup { [subject |-> subject, software |-> software] :
            subject \in Subjects, software \in Softwares }

ElementConfigs ==
    { MinimalConfig(id, element_type) @@ values :
        id \in {"L_photo_01", "R_gui_01"}, element_type \in ElementTypes,
        values \in CallerValues }

\* generate_element_prompt(element_config): _validate_prompt raises
\* ValueError when found_terms is not empty.
GenerateElementPrompt ==
    /\ ~prompt_call.made
    /\ LET xml_string == XmlString(element_config)
           found_terms == FoundTerms(xml_string)
       IN prompt_call' = [made |-> TRUE, found |-> found_terms,
                          raised |-> found_terms # {}, xml |-> xml_string]
    /\ UNCHANGED element_config

InitPrompt ==
    /\ OnlyPrompt
    /\ element_config \in ElementConfigs
    /\ prompt_call = NoPrompt

NextPrompt ==
    \/ GenerateElementPrompt /\ UNCHANGED OutsidePrompt

SpecPrompt == InitPrompt /\ [][NextPrompt]_vars

----------------------------------------------------------------------------
(* Claims about composite_element and the spine geometry (SpecComposite) *)

Called == pasted.id # ""

\* The strict interval-overlap test, written out on the requested position.
RequestOverlaps ==
    pasted.reqx < spine_end /\ pasted.reqx + pasted.width > spine_start

\* C1: after composite_element the pasted box [x, x + width) never overlaps
\* the dead zone: NOT (left < spine_end AND right > spine_start), for every
\* requested x, every bitmap width and every buffer >= 0.
C1_SpineNonIntrusion ==
    Called => ~(pasted.x < spine_end /\ pasted.x + pasted.width > spine_start)

C1_Witness ==
    /\ Called
    /\ RequestOverlaps
    /\ pasted.width > 0
    /\ pasted.x + pasted.width = spine_start - buffer

\* C2 as stated: on intrusion an element centred left of spine_center is
\* pasted at a strictly smaller x and one centred right of it at a strictly
\* larger x (here only for a dead zone strictly inside the canvas and a
\* bitmap narrower than a page, where the statement already fails).
C2_Original ==
    (/\ Called
     /\ RequestOverlaps
     /\ 0 < spine_start
     /\ spine_start < spine_end
     /\ spine_end < canvas_width
     /\ pasted.width < spine_start) =>
        /\ (2 * pasted.reqx + pasted.width < 2 * spine_center
                => pasted.x < pasted.reqx)
        /\ (2 * pasted.reqx + pasted.width > 2 * spine_center
                => pasted.x > pasted.reqx)

\* C2 amended: on intrusion an element whose left edge is left of
\* spine_center is pasted at a strictly smaller x (so is every element centred
\* left of spine_center), and one whose left edge is at or right of
\* spine_center at a strictly larger x.
C2_RelocationDirection ==
    (Called /\ RequestOverlaps) =>
        /\ (pasted.reqx < spine_center => pasted.x < pasted.reqx)
        /\ (pasted.reqx >= spine_center => pasted.x > pasted.reqx)
        /\ (2 * pasted.reqx + pasted.width < 2 * spine_center
                => pasted.x < pasted.reqx)

\* An element centred right of spine_center, left edge left of it, moved left.
C2_Witness ==
    /\ Called
    /\ RequestOverlaps
    /\ pasted.reqx < spine_center
    /\ 2 * pasted.reqx + pasted.width > 2 * spine_center
    /\ pasted.x < pasted.reqx

\* C3: on intrusion the paste position is (spine_start - width - buffer, y)
\* when x < spine_center and (spine_end + buffer, y) otherwise; y is never
\* changed; on the 3400 pixel canvas with the 462 pixel spine (1469..1931) a
\* 400 wide bitmap at x = 1700 is pasted at 1931 + buffer.
C3_RelocationRule ==
    Called =>
        /\ RequestOverlaps =>
              pasted.x = IF pasted.reqx < spine_center
                         THEN spine_start - pasted.width - buffer
                         ELSE spine_end + buffer
        /\ pasted.y = pasted.reqy
        /\ \A p \in DOMAIN canvas :
              canvas[p] # MasterConfig.paper_colors.aged_newsprint =>
                  /\ p[2] = pasted.reqy
                  /\ p[1] \in pasted.x..(pasted.x + pasted.width - 1)
        /\ (canvas_width = 3400 /\ spine_width = 462) =>
              /\ spine_start = 1469
              /\ spine_end = 1931
              /\ (pasted.reqx = 1700 /\ pasted.width = 400) =>
                     pasted.x = 1931 + buffer

C3_Witness ==
    /\ Called
    /\ canvas_width = 3400
    /\ spine_width = 462
    /\ buffer > 0
    /\ pasted.reqx = 1700
    /\ pasted.width = 400
    /\ pasted.x = 1931 + buffer
    /\ canvas[<<1931 + buffer, pasted.reqy>>] = Colour.ink

\* C4: composite_element changes x if and only if x < spine_end and
\* x + width > spine_start; an element that only touches the dead zone or lies
\* clear of it is pasted at exactly the requested (x, y).
C4_StrictOverlap ==
    Called =>
        /\ (pasted.x # pasted.reqx) <=> RequestOverlaps
        /\ ~RequestOverlaps => (pasted.x = pasted.reqx /\ pasted.y = pasted.reqy)

\* A bitmap whose right edge touches spine_start, or whose left edge touches
\* spine_end, pasted where it was requested.
C4_Witness ==
    /\ Called
    /\ pasted.width > 0
    /\ spine_start < spine_end
    /\ buffer > 0
    /\ pasted.reqx = spine_end
    /\ pasted.x = pasted.reqx

\* C5 as stated: for every canvas width w and spine width s with 0 < s < w,
\* spine_start < spine_center < spine_end, 0 < spine_start, spine_end < w.
C5_Original ==
    (0 < spine_width /\ spine_width < canvas_width) =>
        /\ spine_center = canvas_width \div 2
        /\ spine_start < spine_center
        /\ spine_center < spine_end
        /\ 0 < spine_start
        /\ spine_end < canvas_width

\* C5 amended: the same for every w and s with 2 <= s < w and
\* s div 2 < w div 2 (that is, all 2 <= s < w except s = w - 1 with w odd).
C5_SpineGeometry ==
    /\ spine_center = canvas_width \div 2
    /\ spine_start + spine_end = 2 * spine_center
    /\ spine_end - spine_start = 2 * (spine_width \div 2)
    /\ (/\ 2 <= spine_width
        /\ spine_width < canvas_width
        /\ spine_width \div 2 < canvas_width \div 2) =>
            /\ spine_start < spine_center
            /\ spine_center < spine_end
            /\ 0 < spine_start
            /\ spine_end < canvas_width

C5_Witness ==
    /\ spine_width = 3
    /\ canvas_width = 5
    /\ spine_start = 1
    /\ spine_end = 3
    /\ Called

----------------------------------------------------------------------------
(* Claims about get_chaos_rotation (SpecJitter) *)

\* C6: get_chaos_rotation(id, m) returns the same value on every call with
\* the same (id, m), whatever the state of the process-global generator
\* before the call and whatever calls and draws preceded it.
C6_JitterDeterminism ==
    (jitter.id # "" /\ jitter.id = first_jitter.id /\ jitter.m = first_jitter.m)
        => jitter.angle = first_jitter.angle

\* A repeated (id, m) with a magnitude that lets the draw show, entered with
\* the generator in another state than the first time.
C6_Witness ==
    /\ jitter.id # ""
    /\ jitter.id = first_jitter.id
    /\ jitter.m = first_jitter.m
    /\ jitter.m > 0
    /\ jitter.before # first_jitter.before
    /\ jitter.angle # 0

\* C7: for every id and every magnitude m >= 0 the angle lies in [-m, +m],
\* and it is 0 when m = 0 (angles are in units of 1/RngModulus degree).
C7_JitterRange ==
    jitter.id # "" =>
        /\ 0 - jitter.m * RngModulus <= jitter.angle
        /\ jitter.angle <= jitter.m * RngModulus
        /\ (jitter.m = 0 => jitter.angle = 0)

C7_Witness ==
    /\ jitter.id # ""
    /\ jitter.m = 0
    /\ jitter.angle = 0
    /\ first_jitter.m > 0
    /\ first_jitter.angle > 0

----------------------------------------------------------------------------
(* Claims about compose_spread (SpecSpread) *)

LayoutRead == pc # "Idle" /\ failure.stage # "layout"

\* The elements of one page in listed order, each rendered and then pasted.
PageEvents(page_key, n) ==
    [j \in 1..(2 * n) |->
        [op |-> IF j % 2 = 1 THEN "render" ELSE "paste",
         page |-> page_key, k |-> (j + 1) \div 2]]

ExpectedLog ==
    PageEvents("left_page", Len(layout.left_page.elements))
        \o PageEvents("right_page", Len(layout.right_page.elements))

\* C8: compose_spread handles the elements one at a time, every left_page
\* element in listed order before any right_page element in listed order,
\* each rendered and pasted before the next is rendered; a run that gets
\* through the loops has handled them all.
C8_ElementOrder ==
    LayoutRead =>
        /\ Len(log) <= Len(ExpectedLog)
        /\ \A j \in 1..Len(log) : log[j] = ExpectedLog[j]
        /\ pc \in {"Composited", "ArtifactsApplied", "Done"} => log = ExpectedLog
        /\ Len(pastes) = Cardinality({ j \in 1..Len(log) : log[j].op = "paste" })

C8_Witness ==
    /\ pc = "Done"
    /\ Len(layout.left_page.elements) = 1
    /\ Len(layout.right_page.elements) = 1
    /\ Len(log) = 4
    /\ log[2] = [op |-> "paste", page |-> "left_page", k |-> 1]
    /\ log[3] = [op |-> "render", page |-> "right_page", k |-> 1]

\* Whether the k-th paste has a bitmap pixel over canvas pixel p, and that
\* pixel's alpha (0 where it has none) and colour.
Covers(k, p) ==
    /\ p[2] - pastes[k].y + 1 \in 1..Len(pastes[k].bm)
    /\ p[1] - pastes[k].x + 1 \in 1..Len(pastes[k].bm[p[2] - pastes[k].y + 1])

PastedPixel(k, p) ==
    pastes[k].bm[p[2] - pastes[k].y + 1][p[1] - pastes[k].x + 1]

PasteAlpha(k, p) == IF Covers(k, p) THEN PastedPixel(k, p).a ELSE 0

LastOpaque(p) ==
    LET opaque == { k \in 1..Len(pastes) : PasteAlpha(k, p) = 255 }
    IN IF opaque = {} THEN 0 ELSE Max(opaque)

Shown(p) ==
    IF LastOpaque(p) = 0 THEN base[p] ELSE PastedPixel(LastOpaque(p), p).c

\* C9 as stated: after all elements are composited every canvas pixel shows
\* the last element whose bitmap has an opaque pixel there, or the base
\* canvas if none has.
C9_Original ==
    pc = "Composited" => \A p \in DOMAIN canvas : canvas[p] = Shown(p)

\* C9 amended: the same for every canvas pixel on which no partially
\* transparent bitmap pixel (0 < alpha < 255) was pasted after the last
\* opaque one; fully transparent pixels never change the canvas, and a
\* partially transparent one mixes its colour into the pixel beneath it.
C9_PainterWithMask ==
    pc = "Composited" =>
        \A p \in DOMAIN canvas :
            (\A k \in (LastOpaque(p) + 1)..Len(pastes) : PasteAlpha(k, p) = 0)
                => canvas[p] = Shown(p)

\* An opaque pixel pasted over an opaque one of another colour, and a fully
\* transparent pixel pasted over an opaque one.
C9_Witness ==
    /\ pc = "Composited"
    /\ Len(pastes) = 2
    /\ \E p \in DOMAIN canvas :
        /\ PasteAlpha(1, p) = 255
        /\ PasteAlpha(2, p) = 255
        /\ PastedPixel(1, p).c # PastedPixel(2, p).c
        /\ canvas[p] = PastedPixel(2, p).c
    /\ \E q \in DOMAIN canvas :
        /\ PasteAlpha(1, q) = 255
        /\ Covers(2, q)
        /\ PastedPixel(2, q).a = 0
        /\ canvas[q] = PastedPixel(1, q).c

\* The run is in its failed state exactly when an error was raised, and
\* then nothing was rendered or pasted after the error, the artifact pass
\* has not run, no canvas is returned and no step is left to take.
AbortedCleanly ==
    /\ (failure.stage # "") <=> (pc = "Failed")
    /\ pc = "Failed" =>
        /\ returned = NoCanvas
        /\ artifact_runs = 0
        /\ Len(log) = failure.at
        /\ ~ENABLED NextSpread

\* The elements not yet pasted, as <<page, index>>.
Pending ==
    { pk \in (1..Len(PageKeys)) \X (1..MaxElements + 1) :
        /\ pk[2] <= Len(PageElements(layout, PageKeys[pk[1]]))
        /\ pk[1] > page \/ (pk[1] = page /\ pk[2] > idx) }

\* A step that raises is still ahead of the run.
FailureAhead ==
    \/ pc = "Idle"
    \/ pc = "LayoutLoaded" /\ Template \notin DOMAIN MasterConfig.paper_colors
    \/ /\ pc \in {"LayoutLoaded", "Processing", "Rendered"}
       /\ \E pk \in Pending :
            LET e == PageElements(layout, PageKeys[pk[1]])[pk[2]]
            IN RenderFails(e) \/ "position" \notin DOMAIN e

C11_StageOrder ==
    /\ [](pastes # << >> => base # NoCanvas)
    /\ [](artifact_runs <= 1)
    /\ [](artifact_runs = 1 => apply_artifacts /\ log = ExpectedLog)
    /\ [](pc = "Done" => /\ artifact_runs = (IF apply_artifacts THEN 1 ELSE 0)
                          /\ log = ExpectedLog
                          /\ returned = canvas)
    /\ [][artifact_runs = 1 => (log' = log /\ pastes' = pastes)]_vars
    /\ [][base # NoCanvas => base' = base]_vars

\* A run that returned after pasting on both pages and one artifact pass.
C11_Witness ==
    /\ pc = "Done"
    /\ apply_artifacts
    /\ artifact_runs = 1
    /\ Len(layout.left_page.elements) = 1
    /\ Len(layout.right_page.elements) = 1
    /\ Len(pastes) = 2
    /\ returned = canvas

----------------------------------------------------------------------------
(* Claims about the artifact passes (SpecArtifacts) *)

\* The place of an effect in the order misregistration, dot gain, vignette.
EffectRank(name) ==
    CASE name = "paper_texture" -> 0
      [] name = "cmyk_shift" -> 1
      [] name = "dot_gain" -> 2
      [] name = "vignette" -> 3

InRankOrder(seq) ==
    \A i \in 1..Len(seq) : \A j \in (i + 1)..Len(seq) :
        EffectRank(seq[i]) < EffectRank(seq[j])

\* C12: apply_print_artifacts applies the misregistration, then the dot
\* gain, then the vignette, each once: the effects applied so far are always
\* the first steps of that order, and its result is the vignette of the dot
\* gain of the misregistered image.  apply_all_artifacts applies the
\* effects its configuration enables, each once, with the CMYK shift before
\* the dot gain before the vignette.
C12_ArtifactOrder ==
    /\ fx.engine = "compositor" =>
        /\ effects = SubSeq(<<"cmyk_shift", "dot_gain", "vignette">>, 1,
                            fx.step - 1)
        /\ fx.status = "returned" =>
            /\ fx.step = 4
            /\ fx_image =
                VignetteImage(
                    DotGainImage(Misregister(original,
                                             MasterConfig.cmyk_shift.magenta)),
                    vignette_mask)
            /\ fx_config.vignette = MasterConfig.vignette =>
                \A p \in DOMAIN fx_image :
                  fx_image[p].g =
                    ApplyPrintArtifacts(
                        [q \in DOMAIN original |-> original[q].g])[p]
    /\ fx.engine = "post_processor" =>
        /\ InRankOrder(effects)
        /\ \A k \in 1..Len(effects) : fx_config[effects[k]] = "on"
        /\ fx.status = "returned" =>
            \A name \in DOMAIN fx_config :
                fx_config[name] = "on" => \E k \in 1..Len(effects) : effects[k] = name

\* Both passes returned with all three effects applied: the compositor's on
\* an image on which the misregistration shows, the post-processor's with
\* the three effects enabled.
C12_Witness ==
    /\ fx.status = "returned"
    /\ \/ /\ fx.engine = "compositor"
          /\ effects = <<"cmyk_shift", "dot_gain", "vignette">>
          /\ \E p \in DOMAIN original : original[p].r # 0 /\ fx_image[p].r = 0
       \/ /\ fx.engine = "post_processor"
          /\ fx_config.paper_texture = "off"
          /\ effects = <<"cmyk_shift", "dot_gain", "vignette">>

\* The pixel at (width // 2, height // 2) and the squared distance from it.
Centre == <<canvas_width \div 2, canvas_height \div 2>>

Dist2(p) ==
    (p[1] - Centre[1]) * (p[1] - Centre[1]) + (p[2] - Centre[2]) * (p[2] - Centre[2])

VignetteDrawn ==
    /\ fx.engine = "compositor"
    /\ fx.status = "returned"

\* C13 as stated: in the vignette mask of apply_print_artifacts the centre
\* pixel keeps the full weight of the image (255) and the weight does not
\* grow with the distance from the centre, whatever the intensity.
C13_Original ==
    VignetteDrawn =>
        /\ vignette_mask[Centre] = 255
        /\ \A p \in DOMAIN vignette_mask : \A q \in DOMAIN vignette_mask :
            Dist2(p) <= Dist2(q) => vignette_mask[p] >= vignette_mask[q]

\* C13, what the code does: the mask is lowest at the centre, where it is
\* the alpha of the last step, below 255 for every intensity above 0, and
\* it does not fall with the distance from the centre: the centre is
\* darkened most and the pixels far from it least.
C13_CentreDarkest ==
    VignetteDrawn =>
        /\ vignette_mask[Centre] = VignetteAlphaAt(fx_config.vignette, VignetteSteps - 1)
        /\ vignette_mask[Centre] < 255
        /\ \A p \in DOMAIN vignette_mask : \A q \in DOMAIN vignette_mask :
            Dist2(p) <= Dist2(q) => vignette_mask[p] <= vignette_mask[q]

\* A vignette drawn on the widest image: the corner has more weight than
\* the centre.
C13_Witness ==
    /\ VignetteDrawn
    /\ canvas_width = MaxCanvasWidth
    /\ vignette_mask[Centre] < vignette_mask[<<0, 0>>]
    /\ fx_image[Centre].g < fx_image[<<0, 0>>].g
    /\ original[Centre].g = original[<<0, 0>>].g

----------------------------------------------------------------------------
(* Claims about the word wrap (SpecWrap) *)

\* The rendered width of a line: its characters and the spaces between its
\* words, every one a pixel wide.
LineWidth(words) == IF words = << >> THEN 0 ELSE TextWidth(words) - 1

\* C14 as stated: with a wrap width that fits exactly "A B", the text
\* "A B C D" is wrapped into the two lines "A B" and "C D".
C14_Original ==
    (wraps = 1 /\ content = ScenarioText /\ wrap_width = LineWidth(<<"A", "B">>))
        => wrapped_lines = << <<"A", "B">>, <<"C", "D">> >>

\* C14, what the code does: it measures the line with the space it appends
\* after every word, so "A B " does not fit a width that fits exactly "A B"
\* and the text comes out one word a line; the two lines are what a width
\* one space wider gives.
C14_TrailingSpaceCounts ==
    (wraps = 1 /\ content = ScenarioText) =>
        /\ wrap_width = LineWidth(<<"A", "B">>)
            => wrapped_lines = << <<"A">>, <<"B">>, <<"C">>, <<"D">> >>
        /\ wrap_width = LineWidth(<<"A", "B">>) + 1
            => wrapped_lines = << <<"A", "B">>, <<"C", "D">> >>

C14_Witness ==
    /\ wraps = 1
    /\ content = ScenarioText
    /\ wrap_width = 3
    /\ Len(wrapped_lines) = 4

\* A text as an author writes it: at least one word a line, single spaces,
\* none at the ends of a line.
Clean(lines) ==
    \A k \in 1..Len(lines) :
        /\ lines[k] # << >>
        /\ \A i \in 1..Len(lines[k]) : lines[k][i] # ""

Fits(lines, width) == \A k \in 1..Len(lines) : LineWidth(lines[k]) <= width

\* C15 as stated: a text whose lines all have a rendered width of at most
\* the wrap width comes out of the wrap with exactly those lines.
C15_Original ==
    (wraps = 1 /\ Clean(content) /\ Fits(content, wrap_width))
        => wrapped_lines = content

\* C15, what the code does: the lines are kept if each of them fits with
\* the space appended after its last word (or is a single word); a line of
\* several words that fits only without that space is broken.  Wrapping
\* the output again changes nothing.
C15_KeptWithTrailingSpace ==
    /\ [](wraps = 1 /\ Clean(content) =>
            /\ (\A k \in 1..Len(content) :
                    Len(content[k]) = 1 \/ LineWidth(content[k]) + 1 <= wrap_width)
                => wrapped_lines = content
            /\ (\E k \in 1..Len(content) :
                    /\ Len(content[k]) > 1
                    /\ LineWidth(content[k]) + 1 > wrap_width)
                => wrapped_lines # content)
    /\ [][wraps = 1 /\ wraps' = 2 => wrapped_lines' = wrapped_lines]_vars

\* A line of two words exactly as wide as the wrap width, broken in two.
C15_Witness ==
    /\ wraps = 1
    /\ content = << <<"A", "BB">> >>
    /\ wrap_width = 4
    /\ wrapped_lines = << <<"A">>, <<"BB">> >>

----------------------------------------------------------------------------
(* Claims about load_and_process_asset (SpecAsset) *)

Bordered == asset_status = "returned" /\ "border" \in DOMAIN asset_config

\* Whether row r, column i of the returned bitmap lies in the margin.
InMargin(r, i) ==
    LET n == asset_config.border.width
    IN ~(r \in (n + 1)..(n + Len(asset_img)) /\ i \in (n + 1)..(n + Width(asset_img)))

SizeAndMargin ==
    LET n == asset_config.border.width
    IN /\ Len(returned_asset) = Len(asset_img) + 2 * n
       /\ Width(returned_asset) = Width(asset_img) + 2 * n
       /\ \A r \in 1..Len(returned_asset) : \A i \in 1..Len(returned_asset[r]) :
            InMargin(r, i) =>
                returned_asset[r][i] = [a |-> 255, c |-> asset_config.border.color]

\* C16 as stated: the bordered bitmap is 2N wider and higher, its margin is
\* the opaque border colour, and its centre region is the bitmap as it was
\* before the border, pixel for pixel, transparent pixels included.
C16_Original ==
    Bordered =>
        /\ SizeAndMargin
        /\ \A r \in 1..Len(asset_img) : \A i \in 1..Width(asset_img) :
            returned_asset[r + asset_config.border.width]
                          [i + asset_config.border.width] = asset_img[r][i]

\* C16, what the code does: size and margin are as stated; a centre pixel
\* is the asset's where the asset is opaque, and elsewhere the border colour
\* seen through the asset's alpha: a fully transparent pixel comes out as
\* the opaque border colour.
C16_BorderFillsTransparent ==
    Bordered =>
        /\ SizeAndMargin
        /\ \A r \in 1..Len(asset_img) : \A i \in 1..Width(asset_img) :
            LET out == returned_asset[r + asset_config.border.width]
                                     [i + asset_config.border.width]
                src == asset_img[r][i]
            IN /\ src.a = 255 => out = src
               /\ src.a = 0 => out = [a |-> 255, c |-> asset_config.border.color]
               /\ src.a < 255 => out # src

\* A rotated asset, its corners transparent, bordered.
C16_Witness ==
    /\ Bordered
    /\ "rotation" \in DOMAIN asset_config
    /\ Len(asset_img) = 3
    /\ asset_img[1][1].a = 0
    /\ asset_config.border.width = 2
    /\ Len(returned_asset) = 7
    /\ returned_asset[3][3] = [a |-> 255, c |-> asset_config.border.color]

----------------------------------------------------------------------------
(* Claims about create_base_canvas (SpecBase) *)

\* The alpha the shadow mask has over the canvas column x.
MaskAt(x) == shadow_mask[x + 1]

Columns == 0..(canvas_width - 1)

\* C17 as stated: the shadow lies on the pages, from each spine edge
\* outward (leftwards from spine_start, rightwards from spine_end) over
\* int(0.75 * spine_width) columns, its alpha greatest at the edge and
\* not growing with the distance from it.
C17_Original ==
    base_status = "created" =>
        /\ \A x \in Columns : MaskAt(x) > 0 => (x <= spine_start \/ x >= spine_end)
        /\ \A d \in 0..(ShadowWidth - 1) :
            /\ spine_start - d \in Columns => MaskAt(spine_start - d) = ShadowAlpha(d)
            /\ spine_end + d \in Columns => MaskAt(spine_end + d) = ShadowAlpha(d)

\* C17, what the code does: the lines are drawn at spine_start + i and
\* spine_end - i, from each spine edge towards spine_center: the shadow
\* lies inside the dead zone, falling off quadratically from the edges
\* inwards (where the two bands meet, the line drawn last stays), and no
\* column left of spine_start or right of spine_end is darkened.
C17_ShadowInsideSpine ==
    base_status = "created" =>
        /\ \A x \in Columns : MaskAt(x) > 0 => (spine_start <= x /\ x <= spine_end)
        /\ \A x \in Columns : (x < spine_start \/ x > spine_end) =>
            \A y \in 0..(canvas_height - 1) :
                \E template \in DOMAIN MasterConfig.paper_colors, t \in Textures :
                    base_canvas[<<x, y>>] =
                        Blend(NewImage(canvas_width, canvas_height,
                                       MasterConfig.paper_colors[template]),
                              t, MasterConfig.texture_opacity)[<<x, y>>]
        /\ MaskAt(spine_start) = ShadowAlpha(0)
        /\ MaskAt(spine_end) = ShadowAlpha(0)
        /\ ShadowAlpha(0) > 0
        /\ \A i \in 0..(ShadowWidth - 1) : \A j \in i..(ShadowWidth - 1) :
            ShadowAlpha(i) >= ShadowAlpha(j)

\* A spine four columns wide on a canvas of ten: the column inside the
\* spine next to its left edge is shaded, the page column left of the edge
\* is not.
C17_Witness ==
    /\ base_status = "created"
    /\ canvas_width = 10
    /\ spine_width = 4
    /\ ShadowWidth = 3
    /\ MaskAt(spine_start + 1) > 0
    /\ MaskAt(spine_start - 1) = 0
    /\ MaskAt(spine_end + 1) = 0

\* The elements whose type tag begins with "text_".
TextTagged(e) == "type" \in DOMAIN e /\ e.type \in {"text_body", "text_headline"}

\* C19: an element is rendered by render_text_block exactly when
\* its type tag begins with "text_"; every other element, its type a
\* known one, an unknown one or missing, is loaded by load_and_process_asset,
\* and no element fails because of its type: rendering fails only for a
\* text element without its font or an asset element without its file.
C19_DispatchTotal ==
    /\ pc = "Rendered" =>
        LET e == Elements[idx + 1]
        IN element_img = IF TextTagged(e)
                         THEN RenderTextBlock(e)
                         ELSE LoadAndProcessAsset(e)
    /\ failure.stage = "render" =>
        LET e == Elements[idx + 1]
        IN IF TextTagged(e)
           THEN e.font \notin FontFiles
           ELSE e.asset \notin DOMAIN GeneratedAssets

\* An element without a type and one whose type begins with "text" but not
\* with "text_" have both been loaded as assets and the spread is returned.
C19_Witness ==
    /\ pc = "Done"
    /\ \E i, j \in 1..Len(log) :
        /\ log[i].op = "paste"
        /\ log[j].op = "paste"
        /\ "type" \notin DOMAIN PageElements(layout, log[i].page)[log[i].k]
        /\ TypeOf(PageElements(layout, log[j].page)[log[j].k]) = "texture_splat"

----------------------------------------------------------------------------
(* Claims about the configuration (SpecConstruct) *)

\* C18 as stated: a missing configuration file or a missing key is never
\* fatal: neither construction nor a call site raises.
C18_Original ==
    /\ compositor # "raised"
    /\ call_site.outcome # "raised"
    /\ validator.status # "raised"

\* C18, what the code does: KlutzCompositor raises at construction without
\* the file or without one of the keys its constructor reads, and each of
\* its methods raises when a key it reads is missing; nothing is defaulted.
\* Only AssetValidator falls back: it is constructed whatever the file
\* holds, with the 3400 pixel canvas and the spine 1469..1931 as defaults.
C18_OnlyValidatorFallsBack ==
    /\ compositor = "raised" <=>
        (compositor # "none" /\
            ~(config_file.present /\ ConstructorKeys \subseteq config_file.keys))
    /\ call_site.outcome = "raised" <=>
        (call_site # NoCall /\ ~(CallSites[call_site.site] \subseteq config_file.keys))
    /\ compositor = "none" => Unconstructed
    /\ validator.status \in {"none", "constructed"}
    /\ (validator.status = "constructed" /\ ~config_file.present) =>
        /\ validator.canvas_width = 3400
        /\ validator.spine_start = 1469
        /\ validator.spine_end = 1931

\* No configuration file: the compositor has raised, the validator stands
\* with its defaults.
C18_Witness ==
    /\ ~config_file.present
    /\ compositor = "raised"
    /\ validator.status = "constructed"
    /\ validator.spine_start = 1469

----------------------------------------------------------------------------
(* Claims about the command line (SpecMain) *)

\* C20: main() returns 0 only after compose_spread has returned the spread
\* and the spread is saved at the output path; it returns 1 whenever it
\* caught an error; and when the construction or the composition fails,
\* neither the output file nor its parent directory is created.
C20_CliOutcome ==
    /\ main_pc = "Returned" =>
        /\ exit_code \in {0, 1}
        /\ exit_code = 0 <=>
            (pc = "Done" /\ output = [parent |-> TRUE, file |-> "saved"])
        /\ exit_code = 1 <=> main_error # ""
    /\ main_pc # "Returned" => exit_code = -1
    /\ (pc = "Failed" \/ compositor = "raised") =>
        /\ output = NoOutput
        /\ main_pc \in {"Composing", "Caught", "Returned"}
        /\ main_pc = "Returned" => exit_code = 1
    /\ output # NoOutput => pc = "Done"

\* main() has returned 1 after an element of the layout failed to render,
\* with an element pasted before and nothing at the output path.
C20_Witness ==
    /\ main_pc = "Returned"
    /\ exit_code = 1
    /\ main_error = "compose"
    /\ failure.stage = "render"
    /\ Len(pastes) > 0
    /\ output = NoOutput

----------------------------------------------------------------------------
(* Claims about the asset validator (SpecRotation) *)

\* The limit class of each of the type tags checked, in their order.
LimitClass ==
    <<"text", "text", "text", "containers", "containers", "containers",
      "text", "photos", "photos", "none">>

DefaultLimit == [text |-> 5, containers |-> 15, photos |-> 10]

\* The limit the configuration gives a limit class.
LimitOf(class) ==
    IF rotation_cfg.present /\ class \in DOMAIN rotation_cfg.section
    THEN rotation_cfg.section[class]
    ELSE DefaultLimit[class]

TagChecked ==
    CHOOSE t \in DOMAIN ElementTypeTags :
        ElementTypeTags[t] = rotation_check.element_type

\* C21: for an element whose type maps to the limit L, the check reports a
\* violation exactly when |rotation| > L: rotations of L, of -L and of 0 are
\* accepted, and a type without a limit is never reported.
C21_RotationLimit ==
    rotation_check # NoCheck =>
        LET class == LimitClass[TagChecked]
            r == rotation_check.rotation
        IN IF class = "none"
           THEN rotation_check.violations = 0
           ELSE /\ rotation_check.violations = 1 <=> (r > LimitOf(class) \/ r < -LimitOf(class))
                /\ rotation_check.violations \in {0, 1}
                /\ r \in {0, LimitOf(class), -LimitOf(class)} =>
                        rotation_check.violations = 0

\* "photo_text", whose limit is the text limit, checked at exactly -L.
C21_Witness ==
    /\ rotation_check.element_type = ElementTypeTags[7]
    /\ rotation_check.rotation = -LimitOf("text")
    /\ rotation_check.violations = 0
    /\ rotation_cfg.present
    /\ "text" \in DOMAIN rotation_cfg.section

----------------------------------------------------------------------------
(* Claims about get_chaos_rotation under threads (SpecThreads) *)

\* The angle get_chaos_rotation(id, m) returns when it runs alone.
AngleAlone(id, m) == Uniform(0 - m, m, RandomNext(RandomSeed(0, Md5Seed(id))))

\* C22 as stated: however the seed and draw steps of two concurrent calls
\* interleave, each call returns the angle it returns when run alone.
C22_Original ==
    \A t \in DOMAIN threads :
        threads[t].pc = "returned" =>
            threads[t].angle = AngleAlone(threads[t].id, threads[t].m)

\* C22, what the code does: a call returns its own angle when the other
\* thread has not touched the generator between its seed and its draw; a
\* call that was disturbed returns a draw of whatever state the generator
\* was left in.
C22_OwnAngleIfUndisturbed ==
    \A t \in DOMAIN threads :
        (threads[t].pc = "returned" /\ ~threads[t].disturbed) =>
            threads[t].angle = AngleAlone(threads[t].id, threads[t].m)

\* Both calls have returned, and the first one, disturbed, has returned an
\* angle that is not its own.
C22_Witness ==
    /\ threads # << >>
    /\ \A t \in ThreadIds : threads[t].pc = "returned"
    /\ threads[1].disturbed
    /\ threads[1].angle # AngleAlone(threads[1].id, threads[1].m)

----------------------------------------------------------------------------
(* Claims about validator and compositor together (SpecAgree) *)

Relocated == pasted.x # pasted.reqx

\* C23 as stated: an element the validator reports no spine intrusion for
\* is pasted at its declared x, with or without rotation and border.
C23_Original ==
    (validated.stage = "composited" /\ validated.violations = 0) => ~Relocated

\* C23, what the code does: the validator measures the declared width, the
\* compositor the width of the bitmap after rotation and border.  An
\* element the validator accepts is pasted at its declared x when its
\* bitmap is as wide as declared; it is relocated exactly when the bitmap,
\* grown by rotation or border, reaches into the dead zone.
C23_AgreeOnDeclaredWidth ==
    (validated.stage = "composited" /\ validated.violations = 0) =>
        /\ pasted.width = validated.element.dimensions[1] => ~Relocated
        /\ Relocated =>
            /\ pasted.width > validated.element.dimensions[1]
            /\ \/ "border" \in DOMAIN validated.element
               \/ "rotation" \in DOMAIN validated.element
            /\ pasted.reqx < spine_end
            /\ pasted.reqx + pasted.width > spine_start

\* An element with a border and no rotation, accepted by the validator and
\* relocated by the compositor.
C23_Witness ==
    /\ validated.stage = "composited"
    /\ validated.violations = 0
    /\ "border" \in DOMAIN validated.element
    /\ "rotation" \notin DOMAIN validated.element
    /\ Relocated

----------------------------------------------------------------------------
(* Claims about the nano-banana client (SpecBatch, SpecGenerate) *)

\* C24: when batch_generate returns, success + failed = total, and every
\* prompt submitted has been counted exactly once, whatever the order the
\* workers finish in and whatever each prompt is; while it runs, the two
\* counters add up to the number of futures collected.
C24_BatchAccounting ==
    /\ stats.success + stats.failed =
        Cardinality({ i \in DOMAIN futures : futures[i].state = "collected" })
    /\ \A i \in DOMAIN futures : futures[i].collected <= 1
    /\ batch_pc = "returned" =>
        /\ stats.total = Len(prompt_list)
        /\ stats.success + stats.failed = stats.total
        /\ \A i \in DOMAIN futures : futures[i].collected = 1
        /\ stats.success = Len(metadata) - Cardinality(
                { k \in DOMAIN metadata : ~metadata[k].validation_passed })

\* A batch has returned after a success, a failed generation and a prompt
\* whose file could not be parsed, the second prompt collected first.
C24_Witness ==
    /\ batch_pc = "returned"
    /\ stats.success > 0
    /\ \E i \in DOMAIN prompt_list : prompt_list[i] \in {"malformed", "unreadable"}
    /\ Len(metadata) > 0
    /\ metadata[1].prompt > 1

----------------------------------------------------------------------------
(* Claims about the Gemini client (SpecRetry, SpecLimiter, SpecCache) *)

\* The wait the backoff prescribes before the attempt after attempt k.
Backoff(k) ==
    IF retry_config.base_delay * Pow2(k) < retry_config.max_delay
    THEN retry_config.base_delay * Pow2(k)
    ELSE retry_config.max_delay

\* C26 as stated: the model is called at most retry_attempts times, and
\* every call after the first comes after a wait of
\* min(base_delay * 2^k, max_delay), k the index of the failed attempt
\* before it, whether that attempt raised or returned an empty response.
C26_Original ==
    /\ Len(api.calls) <= retry_config.retry_attempts
    /\ \A j \in DOMAIN api.calls :
        j > 1 => api.calls[j].waited = Backoff(api.calls[j - 1].attempt)

\* C26, what the code does: the model is called at most retry_attempts
\* times; the call after an attempt that raised comes after the backoff
\* wait, the call after an empty response comes at once.
C26_BackoffAfterRaiseOnly ==
    /\ Len(api.calls) <= retry_config.retry_attempts
    /\ \A j \in DOMAIN api.calls :
        /\ api.calls[j].attempt = j - 1
        /\ j = 1 => api.calls[j].waited = 0
        /\ j > 1 =>
            api.calls[j].waited =
                IF api.calls[j - 1].outcome = "raised"
                THEN Backoff(api.calls[j - 1].attempt)
                ELSE 0

\* Three calls: the second after an exception and the capped wait, the
\* third straight after an empty response.
C26_Witness ==
    /\ Len(api.calls) = 3
    /\ api.calls[1].outcome = "raised"
    /\ api.calls[2].waited = Backoff(0)
    /\ api.calls[2].outcome = "empty"
    /\ api.calls[3].waited = 0
    /\ retry_config.retry_attempts = 3

\* The element whose calls are on record has had every attempt fail.
ElementFailed ==
    /\ api.attempt = 0
    /\ Len(api.calls) = retry_config.retry_attempts
    /\ api.calls[Len(api.calls)].outcome # "text"

\* C27 as stated: when every attempt has failed, the failure is raised and
\* no empty prompt is appended to the list.
C27_Original == \A k \in DOMAIN prompts : prompts[k].prompt # ""

\* C27, what the code does: when the last attempt raised, the exception
\* reaches the element loop and nothing is appended; when the last attempt
\* returned an empty response, the loop runs out, "" is returned and
\* appended as the element's prompt.
C27_EmptyPromptAfterEmptyResponse ==
    /\ ElementFailed =>
        LET last == api.calls[Len(api.calls)].outcome
            mine == { k \in DOMAIN prompts :
                        prompts[k].element = transform.element - 1 }
        IN IF last = "raised" THEN mine = {}
           ELSE \E k \in mine : mine = {k} /\ prompts[k].prompt = ""
    /\ \A k \in DOMAIN prompts :
        prompts[k].prompt = "" => ~retry_config.mock_mode

\* transform_layout_to_prompts has returned a list that holds an empty
\* prompt for an element all of whose attempts returned nothing.
C27_Witness ==
    /\ transform.pc = "returned"
    /\ ElementFailed
    /\ \A j \in DOMAIN api.calls : api.calls[j].outcome = "empty"
    /\ prompts # << >>
    /\ prompts[Len(prompts)].prompt = ""

\* The calls recorded in the window of the given length that ends at end.
InWindow(end, length) ==
    { k \in DOMAIN admitted : admitted[k] <= end /\ end - admitted[k] < length }

\* C28: in every trailing window of a minute the calls recorded are at most
\* requests_per_minute, and in every trailing window of an hour at most
\* requests_per_hour.
C28_RateWindow ==
    \A end \in 0..clock :
        /\ Cardinality(InWindow(end, MinuteWindow)) <= rate_config.requests_per_minute
        /\ Cardinality(InWindow(end, HourWindow)) <= rate_config.requests_per_hour

\* A call has slept for the minute limit and a later one for the hour
\* limit: with one call a minute and two an hour, three calls recorded at
\* 0, at MinuteWindow and at HourWindow.
C28_Witness ==
    /\ rate_config = [requests_per_minute |-> 1, requests_per_hour |-> 2]
    /\ Len(admitted) = 3
    /\ admitted[1] = 0
    /\ admitted[2] = MinuteWindow
    /\ admitted[3] = HourWindow

\* The last call returned the response without the rate limiter and the
\* API.
ServedFromCache(response) ==
    /\ last_call.response = response
    /\ ~last_call.api_called
    /\ ~last_call.limiter_called

----------------------------------------------------------------------------
(* Claims about the prompt generator (SpecPrompt) *)

\* The config holds id, type and dimensions only.
OnlyRequiredKeys == DOMAIN element_config = {"id", "type", "dimensions"}

\* A value of the config that enters the XML string (the id, the subject,
\* the software) holds a forbidden term.
CallerIntroducesTerm ==
    \E key \in DOMAIN element_config \ {"type", "dimensions"} :
        FoundTerms(<<element_config[key]>>) # {}

\* The forbidden terms in the lines of the template itself.
TemplateTerms(template_key) ==
    FoundTerms(EmbeddedTemplates[template_key].positive
               \o EmbeddedTemplates[template_key].negative)

\* C30 as stated: with the embedded templates a config of id, type and
\* dimensions only, its id free of forbidden terms, gives an XML prompt
\* without ValueError for every element type, and ValueError is raised only
\* when a caller-supplied value holds a forbidden term.
C30_Original ==
    prompt_call.made =>
        /\ (OnlyRequiredKeys /\ ~CallerIntroducesTerm) => ~prompt_call.raised
        /\ prompt_call.raised => CallerIntroducesTerm

\* C30: with the embedded templates generate_element_prompt raises
\* ValueError for every element type and every config, the config of id,
\* type and dimensions only included: the terms found include the forbidden
\* terms that the lines of the type's own template hold, and those are
\* never none.
C30_EmbeddedTemplatesRaise ==
    prompt_call.made =>
        LET template_key == GetTemplateKey(element_config.type)
        IN /\ TemplateTerms(template_key) # {}
           /\ TemplateTerms(template_key) \subseteq prompt_call.found
           /\ prompt_call.raised

\* A config of id, type and dimensions only for the pixel art type, and
\* ValueError raised for "gradient" alone.
C30_Witness ==
    /\ prompt_call.made
    /\ OnlyRequiredKeys
    /\ ~CallerIntroducesTerm
    /\ element_config.type = "graphic_pixelart"
    /\ prompt_call.raised
    /\ prompt_call.found = {"gradient"}

====
